---- MODULE Spec2Model ----
(***************************************************************************)
(* A model of the relay server of nostr-rs-relay (src/server.rs): the      *)
(* per-connection select loop of nostr_server, the channels it shares with *)
(* the database writer and the query workers, and the broadcast bus.       *)
(*                                                                         *)
(* ClientConn (conn.rs), Subscription (subscription.rs), Notice            *)
(* (notice.rs), the writer db_writer and the query workers (db.rs, repo)   *)
(* are not part of server.rs; they are modelled from the specification.    *)
(*                                                                         *)
(* The model covers the six branches of the loop (shutdown, ping, notice,  *)
(* query result, broadcast, inbound frame), the cleanup after it, and the  *)
(* supervisor of start_server with its three shutdown triggers.  A wait    *)
(* inside a handler (on the subscription rate limiter, on room in the      *)
(* submission channel) is a step that is not enabled until the wait ends.  *)
(***************************************************************************)
EXTENDS Integers, Sequences, FiniteSets, TLC

\* ---------------------------------------------------------------- bounds

\* inbound websocket frames the clients send, all connections together
MaxFrames == 3
\* stored rows a historical query can return
MaxRows == 1
\* settings.limits.broadcast_buffer: capacity of the broadcast bus
BroadcastBuffer == 1
\* settings.limits.event_persist_buffer: capacity of the submission channel
PersistBuffer == 1
\* ClientConn's limit on the subscriptions of one connection
MaxSubs == 2
\* limits.subscriptions_per_min when it is set to a positive number
SubsPerMin == 1

\* ------------------------------------------------------ program constants

\* mpsc::channel::<db::QueryResult>(20_000)
QueryChanCap == 20000
\* mpsc::channel::<Notice>(128)
NoticeChanCap == 128

\* ------------------------------------------------------------- universes

Conns == {1, 2}

\* the double quote character, as it appears inside a subscription id
DQ == "\""

\* subscription ids are strings, modelled as sequences of characters
IdA == <<"a">>
IdB == <<"b">>
IdAq == <<"a", DQ>>
SubIds == {IdA, IdB, IdAq}
NoId == <<>>

\* events, identified by their id; the kind of an event is the only field
\* a filter of the model looks at
Events == {"e1", "e2"}
NoEvent == ""

EventKind(e) == IF e = "e1" THEN 1 ELSE 2

\* the serialized event of stored row n of a query
Row(n) == "row" \o ToString(n)

\* Subscription: an id, the filters (the kinds they ask for) and whether
\* the filters ask for stored events
Sub(id, kinds, hist) == [id |-> id, kinds |-> kinds, hist |-> hist]

NoSub == Sub(NoId, {}, FALSE)

Subscriptions ==
    { Sub(IdA, {1}, TRUE), Sub(IdB, {2}, TRUE), Sub(IdAq, {1, 2}, FALSE) }

\* ------------------------------------------------------- inbound frames

\* what ws_stream.next() yields; one record shape for all of them
InFrame(t, sub, id, ev, valid, ts_ok) ==
    [t |-> t, sub |-> sub, id |-> id, ev |-> ev, valid |-> valid, ts_ok |-> ts_ok]

ReqFrames == { InFrame("REQ", s, s.id, NoEvent, TRUE, TRUE) : s \in Subscriptions }

CloseFrames == { InFrame("CLOSE", NoSub, id, NoEvent, TRUE, TRUE) : id \in SubIds }

\* EVENT frames: the events, and e1 once failing validation and once with
\* a created_at too far in the future
EventFrames ==
    { InFrame("EVENT", NoSub, NoId, e, TRUE, TRUE) : e \in Events }
       \cup { InFrame("EVENT", NoSub, NoId, "e1", FALSE, TRUE),
              InFrame("EVENT", NoSub, NoId, "e1", TRUE, FALSE) }

WsCloseFrame == InFrame("WsClose", NoSub, NoId, NoEvent, TRUE, TRUE)

NoFrame == InFrame("", NoSub, NoId, NoEvent, TRUE, TRUE)

\* ------------------------------------------------------ outbound frames

\* a text frame as written to the websocket; unused fields hold a default
Wire(t, sub, ev, ok, msg) ==
    [t |-> t, sub |-> sub, ev |-> ev, ok |-> ok, msg |-> msg]

\* s.replace('"', "")
subesc(id) == SelectSeq(id, LAMBDA ch : ch # DQ)

\* ------------------------------------------------------------- notices

Notice(kind, id, status, msg, sid) ==
    [kind |-> kind, id |-> id, status |-> status, msg |-> msg, sid |-> sid]

NoticeMessage(msg) == Notice("Message", NoEvent, "None", msg, 0)

\* EventResultStatus::to_bool
to_bool(status) == status \in {"Saved", "Duplicate"}

\* make_notice_message that leaves out the message of an event result
make_notice_message_no_text(notice) ==
    IF notice.kind = "Message"
    THEN Wire("NOTICE", NoId, NoEvent, FALSE, notice.msg)
    ELSE Wire("OK", NoId, notice.id, to_bool(notice.status), "")

make_notice_message(notice) ==
    IF notice.kind = "Message"
    THEN Wire("NOTICE", NoId, NoEvent, FALSE, notice.msg)
    ELSE Wire("OK", NoId, notice.id, to_bool(notice.status), notice.msg)

\* ------------------------------------------------------------- the state

VARIABLES
    pc,               \* per connection: "loop" while nostr_server is in its select,
                      \* "sending" while a handler waits, "done" after the loop
    subscriptions,    \* per connection: conn's map from sub id to Subscription
    running_queries,  \* per connection: map from sub id to a cancel signal
    queries,          \* the cancel signals created so far, each with its query
    query_rx,         \* per connection: the query result channel
    notice_rx,        \* per connection: the notice channel
    bcast_rx,         \* per connection: the bus events not yet read
    lagged,           \* per connection: the bus receiver has been overrun
    event_tx,         \* the submission channel to the writer
    repo,             \* ids of the events the repository holds
    subm,             \* history: the submissions and what the writer said
    published,        \* history: the events the writer put on the bus
    log,              \* history, per connection: the frames written to the websocket
    busstat,          \* history, per connection: bus events read and lost
    last,             \* history: what the step that led here was
    nframes,          \* inbound frames handled so far
    settings,         \* the configuration the server was started with
    sup,              \* the supervisor: signals delivered, its tasks, the listener
    shutdown_rx,      \* per connection: shutdown messages not yet received
    now,              \* the time, in seconds since the connections started
    ping_at,          \* per connection: the time of the next tick of ping_interval
    inbox,            \* per connection: frames that arrived and are not yet read
    pings,            \* history, per connection: the times a Ping frame was sent
    disconnects,      \* per connection: its increments of disconnects{reason}
    last_message_time, \* per connection: the time of the last inbound frame
    sub_lim_opt,      \* per connection: None, or the cells its rate limiter holds
    http,             \* history: the last HTTP request and the response to it
    arrivals          \* history, per connection: when its last frame arrived, and
                      \* the longest time it went without one

vars == <<pc, subscriptions, running_queries, queries, query_rx, notice_rx,
          bcast_rx, lagged, event_tx, repo, subm, published, log, busstat,
          last, nframes, settings, sup, shutdown_rx, now, ping_at, inbox,
          pings, disconnects, last_message_time, sub_lim_opt, http, arrivals>>

connVars == <<pc, subscriptions, running_queries>>
writerVars == <<event_tx, repo, subm, published>>
busVars == <<bcast_rx, lagged, busstat>>
envVars == <<settings, http, arrivals, now, ping_at, inbox, pings>>
auxVars == <<envVars, sup, shutdown_rx>>
idleVars == <<disconnects, last_message_time, sub_lim_opt>>
\* what the supervisor and the clock leave alone
progVars == <<connVars, queries, query_rx, notice_rx, busVars, writerVars, log,
              nframes, idleVars>>

\* nostr_server of connection c has not returned: its receivers exist
Running(c) == pc[c] \in {"loop", "sending"}

\* ------------------------------------------------------------- maps

EmptyMap == [x \in {} |-> 0]

MapPut(m, k, v) == [x \in (DOMAIN m) \cup {k} |-> IF x = k THEN v ELSE m[x]]

MapDel(m, k) == [x \in (DOMAIN m) \ {k} |-> m[x]]

\* ------------------------------------------------------------- the log

\* one entry per frame written to the websocket: the frame f, and as
\* history the subscription (key), the query (q) and the submission (sid)
\* it was written for (NoId, 0, 0 when none)
LogOut(w, key, q, sid) == [f |-> w, key |-> key, q |-> q, sid |-> sid]

\* the step that led to a state: k is "in" for an inbound frame f handled
\* by connection c, "bus" for a bus event read by c, "shutdown" and "tick"
\* for the shutdown and ping branches of c, "other" for the rest;
\* had tells whether f's sub id was subscribed on c before the step
Label(k, c, f, had) == [k |-> k, c |-> c, f |-> f, had |-> had]

Other == Label("other", 0, NoFrame, FALSE)

\* the seconds an event may lie in the future when the option is set
fut_sec == 1800

\* the labels of the disconnects counter
Reasons == {"normal", "error", "timeout", "shutdown"}

\* Options are sets with at most one element: {} is None, {x} is Some(x).
\* The configuration of the runs in which the limits play no part:
\* events may lie fut_sec in the future, no limit on the size of a frame,
\* a ping every five minutes, no limit on the rate of subscriptions.
DefaultSettings ==
    [reject_future_seconds |-> {fut_sec},
     max_event_bytes |-> {},
     ping_interval_seconds |-> 300,
     subscriptions_per_min |-> {}]

\* sub_lim_opt as nostr_server builds it: a limiter with a full bucket of
\* sub_per_min cells when subscriptions_per_min is Some(sub_per_min) and
\* sub_per_min > 0, None otherwise
NewLimiter(s) ==
    IF \E sub_per_min \in s.subscriptions_per_min : sub_per_min > 0
    THEN s.subscriptions_per_min
    ELSE {}

\* the supervisor when the server has started: no signal delivered, the
\* tasks that wait for one are waiting, the listener is serving, and
\* invoke_shutdown has not been sent on
InitSup ==
    [sigint |-> FALSE, sigterm |-> FALSE, request |-> FALSE,
     ctrl_c_task |-> "waiting", control_task |-> "waiting",
     listener |-> "serving", sent |-> 0]

\* an HTTP request: the path of its URI, its method, whether it has an
\* Upgrade header, its Accept header (None, or Some of a value that is
\* visible ASCII or not, the text in pieces), and whether tungstenite
\* accepts it as a websocket handshake
Request(path, method, upgrade, accept, handshake) ==
    [path |-> path, method |-> method, upgrade |-> upgrade, accept |-> accept,
     handshake |-> handshake]

\* a response: status, Content-Type and Access-Control-Allow-Origin
\* headers ("" when not set) and what the body holds
Response(status, content_type, allow_origin, body) ==
    [status |-> status, content_type |-> content_type,
     allow_origin |-> allow_origin, body |-> body]

NoExchange ==
    [request |-> Request("", "", FALSE, {}, FALSE), response |-> Response(0, "", "", "")]

\* the state of the channels and tables when the server has started
InitRest ==
    /\ http = NoExchange
    /\ arrivals = [c \in Conns |-> [last |-> 0, gap |-> 0]]
    /\ subscriptions = [c \in Conns |-> EmptyMap]
    /\ running_queries = [c \in Conns |-> EmptyMap]
    /\ queries = <<>>
    /\ query_rx = [c \in Conns |-> <<>>]
    /\ notice_rx = [c \in Conns |-> <<>>]
    /\ bcast_rx = [c \in Conns |-> <<>>]
    /\ lagged = [c \in Conns |-> FALSE]
    /\ event_tx = <<>>
    /\ repo = {}
    /\ subm = <<>>
    /\ published = <<>>
    /\ log = [c \in Conns |-> <<>>]
    /\ busstat = [c \in Conns |-> [read |-> 0, lost |-> 0]]
    /\ last = Other
    /\ nframes = 0
    /\ sup = InitSup
    /\ shutdown_rx = [c \in Conns |-> 0]
    /\ now = 0
    /\ ping_at = [c \in Conns |-> settings.ping_interval_seconds]
    /\ inbox = [c \in Conns |-> <<>>]
    /\ pings = [c \in Conns |-> <<>>]
    /\ disconnects = [c \in Conns |-> [r \in Reasons |-> 0]]
    /\ last_message_time = [c \in Conns |-> 0]
    /\ sub_lim_opt = [c \in Conns |-> NewLimiter(settings)]

\* both connections have entered their loop
Init ==
    /\ settings = DefaultSettings
    /\ pc = [c \in Conns |-> "loop"]
    /\ InitRest

\* ------------------------------------------------- ClientConn (conn.rs)

\* conn.has_subscription: the id is already in the subscription map
has_subscription(subs, s) == s.id \in DOMAIN subs

\* conn.subscribe: fails when the connection is at its limit
subscribe(subs, s) ==
    IF Cardinality(DOMAIN subs) >= MaxSubs
    THEN [ok |-> FALSE, err |-> "SubMaxExceededError", subs |-> subs]
    ELSE [ok |-> TRUE, err |-> "", subs |-> MapPut(subs, s.id, s)]

\* conn.unsubscribe
unsubscribe(subs, id) == MapDel(subs, id)

\* sub.interested_in_event
interested_in_event(s, e) == EventKind(e) \in s.kinds

\* sub.needs_historical_events
needs_historical_events(s) == s.hist

\* ---------------------------------------------- cancel signals, queries

\* NewQuery that starts a historical query for every subscription
NewQueryAlways(c, s, n, at) ==
    [conn |-> c, sub |-> s.id, state |-> "running", left |-> n, total |-> n,
     fired |-> 0, openedAt |-> at,
     closed |-> FALSE, closedAt |-> 0, closedPending |-> FALSE,
     closedEose |-> FALSE]

\* One record per oneshot channel made by a successful REQ.  fired counts
\* the sends on abandon_query_tx.  state is the worker's: "none" when no
\* query was submitted, else "running", "done" (EOSE enqueued) or "aborted".
\* The rest is history: openedAt is the number of frames the connection
\* had sent when the REQ was handled; closed tells that a CLOSE removed the
\* signal, closedAt the number of frames sent by then, closedPending
\* whether results of the query were still pending then, closedEose whether
\* its EOSE was in the query result channel then.
NewQuery(c, s, n, at) ==
    [conn |-> c, sub |-> s.id,
     state |-> IF needs_historical_events(s) THEN "running" ELSE "none",
     left |-> IF needs_historical_events(s) THEN n ELSE 0,
     total |-> IF needs_historical_events(s) THEN n ELSE 0,
     fired |-> 0, openedAt |-> at,
     closed |-> FALSE, closedAt |-> 0, closedPending |-> FALSE,
     closedEose |-> FALSE]

\* tx.send(()).ok()
Fire(qs, q) == [qs EXCEPT ![q].fired = @ + 1]

\* db::QueryResult, with the query it came from as history
QueryResultMsg(sub_id, event, q) == [sub_id |-> sub_id, event |-> event, q |-> q]

EOSE == "EOSE"

\* results of query q that the connection has not sent yet
Pending(q) ==
    \/ queries[q].state = "running"
    \/ \E i \in DOMAIN query_rx[queries[q].conn] : query_rx[queries[q].conn][i].q = q

\* the EOSE of query q is in the query result channel
EoseQueued(q) ==
    \E i \in DOMAIN query_rx[queries[q].conn] :
        query_rx[queries[q].conn][i].q = q /\ query_rx[queries[q].conn][i].event = EOSE

\* ------------------------------------------- the loop of one connection

\* ws_stream.send(..).await.ok() for each of the frames
Send(c, frames) == log' = [log EXCEPT ![c] = @ \o frames]

\* Cleanup that drops running_queries without firing the cancel signals
CleanupNoFire(c) ==
    /\ pc' = [pc EXCEPT ![c] = "done"]
    /\ running_queries' = [running_queries EXCEPT ![c] = EmptyMap]
    /\ subscriptions' = [subscriptions EXCEPT ![c] = EmptyMap]
    /\ query_rx' = [query_rx EXCEPT ![c] = <<>>]
    /\ notice_rx' = [notice_rx EXCEPT ![c] = <<>>]
    /\ bcast_rx' = [bcast_rx EXCEPT ![c] = <<>>]
    /\ lagged' = [lagged EXCEPT ![c] = FALSE]
    /\ UNCHANGED <<queries, busstat>>

\* the cleanup after the loop: every cancel signal left in running_queries
\* is fired, and the receivers and the connection state are dropped
Cleanup(c) ==
    /\ pc' = [pc EXCEPT ![c] = "done"]
    /\ queries' = [q \in DOMAIN queries |->
                      IF \E id \in DOMAIN running_queries[c] : running_queries[c][id] = q
                      THEN [queries[q] EXCEPT !.fired = @ + 1]
                      ELSE queries[q]]
    /\ running_queries' = [running_queries EXCEPT ![c] = EmptyMap]
    /\ subscriptions' = [subscriptions EXCEPT ![c] = EmptyMap]
    /\ query_rx' = [query_rx EXCEPT ![c] = <<>>]
    /\ notice_rx' = [notice_rx EXCEPT ![c] = <<>>]
    /\ bcast_rx' = [bcast_rx EXCEPT ![c] = <<>>]
    /\ lagged' = [lagged EXCEPT ![c] = FALSE]
    /\ UNCHANGED busstat

\* NoticeBranch that writes the frame twice
NoticeBranchTwice(c) ==
    /\ pc[c] = "loop"
    /\ notice_rx[c] # <<>>
    /\ Send(c, << LogOut(make_notice_message(Head(notice_rx[c])), NoId, 0,
                         Head(notice_rx[c]).sid),
                  LogOut(make_notice_message(Head(notice_rx[c])), NoId, 0,
                         Head(notice_rx[c]).sid) >>)
    /\ notice_rx' = [notice_rx EXCEPT ![c] = Tail(@)]
    /\ last' = Other
    /\ UNCHANGED <<connVars, queries, query_rx, busVars, writerVars, nframes, auxVars, idleVars>>

\* Some(notice_msg) = notice_rx.recv()
NoticeBranch(c) ==
    /\ pc[c] = "loop"
    /\ notice_rx[c] # <<>>
    /\ Send(c, << LogOut(make_notice_message(Head(notice_rx[c])), NoId, 0,
                         Head(notice_rx[c]).sid) >>)
    /\ notice_rx' = [notice_rx EXCEPT ![c] = Tail(@)]
    /\ last' = Other
    /\ UNCHANGED <<connVars, queries, query_rx, busVars, writerVars, nframes, auxVars, idleVars>>

\* QueryResultFrame that does not tell the sentinel from a row
QueryResultFrameNoEose(r) ==
    Wire("EVENT", subesc(r.sub_id), r.event, FALSE, "")

\* the frame for one query result
QueryResultFrame(r) ==
    IF r.event = EOSE
    THEN Wire("EOSE", subesc(r.sub_id), NoEvent, FALSE, "")
    ELSE Wire("EVENT", subesc(r.sub_id), r.event, FALSE, "")

\* Some(query_result) = query_rx.recv()
QueryResultBranch(c) ==
    /\ pc[c] = "loop"
    /\ query_rx[c] # <<>>
    /\ Send(c, << LogOut(QueryResultFrame(Head(query_rx[c])),
                         Head(query_rx[c]).sub_id, Head(query_rx[c]).q, 0) >>)
    /\ query_rx' = [query_rx EXCEPT ![c] = Tail(@)]
    /\ last' = Other
    /\ UNCHANGED <<connVars, queries, notice_rx, busVars, writerVars, nframes, auxVars, idleVars>>

\* the orders in which a HashMap with key set S can be iterated
Orders(S) ==
    { o \in [1..Cardinality(S) -> S] : \A i, j \in DOMAIN o : o[i] = o[j] => i = j }

\* BroadcastFrames that does not ask whether the subscription is interested
BroadcastFramesAll(subs, o, e) ==
    [i \in DOMAIN o |->
        LogOut(Wire("EVENT", subesc(o[i]), e, FALSE, ""), o[i], 0, 0)]

\* the frames for bus event e, the subscriptions iterated in order o
BroadcastFrames(subs, o, e) ==
    LET hit == SelectSeq(o, LAMBDA id : interested_in_event(subs[id], e))
    IN [i \in DOMAIN hit |->
           LogOut(Wire("EVENT", subesc(hit[i]), e, FALSE, ""), hit[i], 0, 0)]

\* BroadcastBranch that leaves the event it has read in the receiver
BroadcastBranchKeeps(c) ==
    /\ pc[c] = "loop"
    /\ ~lagged[c]
    /\ bcast_rx[c] # <<>>
    /\ \E o \in Orders(DOMAIN subscriptions[c]) :
          Send(c, BroadcastFrames(subscriptions[c], o, Head(bcast_rx[c])))
    /\ UNCHANGED bcast_rx
    /\ busstat' = [busstat EXCEPT ![c].read = @ + 1]
    /\ last' = Label("bus", c, NoFrame, FALSE)
    /\ UNCHANGED <<connVars, queries, query_rx, notice_rx, lagged, writerVars, nframes, auxVars, idleVars>>

\* Ok(global_event) = bcast_rx.recv()
BroadcastBranch(c) ==
    /\ pc[c] = "loop"
    /\ ~lagged[c]
    /\ bcast_rx[c] # <<>>
    /\ \E o \in Orders(DOMAIN subscriptions[c]) :
          Send(c, BroadcastFrames(subscriptions[c], o, Head(bcast_rx[c])))
    /\ bcast_rx' = [bcast_rx EXCEPT ![c] = Tail(@)]
    /\ busstat' = [busstat EXCEPT ![c].read = @ + 1]
    /\ last' = Label("bus", c, NoFrame, FALSE)
    /\ UNCHANGED <<connVars, queries, query_rx, notice_rx, lagged, writerVars, nframes, auxVars, idleVars>>

\* BroadcastLagged that ends the connection
BroadcastLaggedEnds(c) ==
    /\ pc[c] = "loop"
    /\ lagged[c]
    /\ Cleanup(c)
    /\ last' = Other
    /\ UNCHANGED <<writerVars, log, nframes, auxVars, idleVars>>

\* bcast_rx.recv() yields Err(Lagged): the pattern does not match, nothing
\* is sent, and the receiver goes on from the oldest event still in the bus
BroadcastLagged(c) ==
    /\ pc[c] = "loop"
    /\ lagged[c]
    /\ lagged' = [lagged EXCEPT ![c] = FALSE]
    /\ last' = Other
    /\ UNCHANGED <<connVars, queries, query_rx, notice_rx, bcast_rx, busstat,
                   writerVars, log, nframes, auxVars, idleVars>>

\* ------------------------------------------------- inbound frame branch

\* last_message_time = Instant::now()
Touch(c) ==
    /\ last_message_time' = [last_message_time EXCEPT ![c] = now]
    /\ UNCHANGED auxVars

\* metrics.disconnects.with_label_values(&[reason]).inc()
Disconnect(c, reason) ==
    disconnects' = [disconnects EXCEPT ![c][reason] = @ + 1]

\* settings.options.reject_future_seconds is Some(fut_sec)
reject_future_seconds_is_some == settings.reject_future_seconds # {}


\* db::SubmittedEvent: the event and the submitter's notice_tx; sid is the
\* submission's place in subm
SubmittedEvent(e, c, sid) == [event |-> e, notice_tx |-> c, sid |-> sid]

\* EventMsg that submits an event whatever its timestamp
EventMsgAnyTimestamp(c, f) ==
    /\ UNCHANGED <<connVars, queries, query_rx, notice_rx, busVars, repo, published>>
    /\ IF f.valid
       THEN /\ Len(event_tx) < PersistBuffer
            /\ event_tx' = Append(event_tx, SubmittedEvent(f.ev, c, Len(subm) + 1))
            /\ subm' = Append(subm, [conn |-> c, ev |-> f.ev, res |-> "queued",
                                     told |-> FALSE])
            /\ UNCHANGED log
       ELSE /\ UNCHANGED <<event_tx, subm>>
            /\ Send(c, << LogOut(make_notice_message(
                              Notice("EventResult", f.ev, "Invalid", "event invalid", 0)),
                              NoId, 0, 0) >>)

\* Ok(NostrMessage::EventMsg(ec))
EventMsg(c, f) ==
    /\ UNCHANGED <<connVars, queries, query_rx, notice_rx, busVars, repo, published>>
    /\ IF f.valid
       THEN IF f.ts_ok
            THEN \* event_tx.send(submit_event).await waits for room
                 /\ Len(event_tx) < PersistBuffer
                 /\ event_tx' = Append(event_tx, SubmittedEvent(f.ev, c, Len(subm) + 1))
                 /\ subm' = Append(subm, [conn |-> c, ev |-> f.ev, res |-> "queued",
                                          told |-> FALSE])
                 /\ UNCHANGED log
            ELSE /\ UNCHANGED <<event_tx, subm>>
                 /\ IF reject_future_seconds_is_some
                    THEN Send(c, << LogOut(make_notice_message(
                                        Notice("EventResult", f.ev, "Invalid",
                                               "The event created_at field is out of the acceptable range (+"
                                                 \o ToString(fut_sec) \o "sec) for this relay.", 0)),
                                        NoId, 0, 0) >>)
                    ELSE UNCHANGED log
       ELSE /\ UNCHANGED <<event_tx, subm>>
            /\ Send(c, << LogOut(make_notice_message(
                              Notice("EventResult", f.ev, "Invalid", "event invalid", 0)),
                              NoId, 0, 0) >>)

\* SubscribeOk that stores a cancel signal only when a historical query is
\* started
SubscribeOkHistOnly(c, f, n, subs) ==
    /\ subscriptions' = [subscriptions EXCEPT ![c] = subs]
    /\ running_queries' =
          IF needs_historical_events(f.sub)
          THEN [running_queries EXCEPT ![c] = MapPut(@, f.sub.id, Len(queries) + 1)]
          ELSE running_queries
    /\ queries' =
          Append(IF f.sub.id \in DOMAIN running_queries[c]
                 THEN Fire(queries, running_queries[c][f.sub.id])
                 ELSE queries,
                 NewQuery(c, f.sub, n, Len(log[c])))
    /\ UNCHANGED log

\* the Ok(()) arm of conn.subscribe: the cancel signal is stored, a cancel
\* signal it replaces is fired, and the query is handed to the workers
SubscribeOk(c, f, n, subs) ==
    /\ subscriptions' = [subscriptions EXCEPT ![c] = subs]
    /\ running_queries' =
          [running_queries EXCEPT ![c] = MapPut(@, f.sub.id, Len(queries) + 1)]
    /\ queries' =
          Append(IF f.sub.id \in DOMAIN running_queries[c]
                 THEN Fire(queries, running_queries[c][f.sub.id])
                 ELSE queries,
                 NewQuery(c, f.sub, n, Len(log[c])))
    /\ UNCHANGED log

\* SubscribeErr that keeps the cancel signal made for the subscription
SubscribeErrInserts(c, err) ==
    /\ UNCHANGED <<subscriptions, queries>>
    /\ running_queries' =
          [running_queries EXCEPT ![c] = MapPut(@, last'.f.id, Len(queries))]
    /\ Send(c, << LogOut(make_notice_message(
                      NoticeMessage("Subscription error: " \o err)),
                      NoId, 0, 0) >>)

\* the Err(e) arm of conn.subscribe
SubscribeErr(c, err) ==
    /\ UNCHANGED <<subscriptions, running_queries, queries>>
    /\ Send(c, << LogOut(make_notice_message(
                      NoticeMessage("Subscription error: " \o err)),
                      NoId, 0, 0) >>)

\* Acquire on one limiter that all connections share
AcquireShared(c) ==
    IF sub_lim_opt[c] = {}
    THEN UNCHANGED sub_lim_opt
    ELSE \E k \in sub_lim_opt[1] :
            /\ k > 0
            /\ sub_lim_opt' = [sub_lim_opt EXCEPT ![1] = {k - 1}]

\* if let Some(ref lim) = sub_lim_opt { lim.until_ready_with_jitter(jitter).await }
\* the handler waits until the bucket of its connection holds a cell, and
\* takes it
Acquire(c) ==
    IF sub_lim_opt[c] = {}
    THEN UNCHANGED sub_lim_opt
    ELSE \E k \in sub_lim_opt[c] :
            /\ k > 0
            /\ sub_lim_opt' = [sub_lim_opt EXCEPT ![c] = {k - 1}]

\* the limiter of connection c regains a cell as time passes, up to its burst
Replenish(c) ==
    /\ pc[c] = "loop"
    /\ \E k \in sub_lim_opt[c] :
          /\ \E sub_per_min \in settings.subscriptions_per_min : k < sub_per_min
          /\ sub_lim_opt' = [sub_lim_opt EXCEPT ![c] = {k + 1}]
    /\ last' = Other
    /\ UNCHANGED <<connVars, queries, query_rx, notice_rx, busVars, writerVars, log,
                   nframes, auxVars, disconnects, last_message_time>>

\* SubMsg without the check for a duplicate subscription
SubMsgNoDupCheck(c, f, n) ==
    /\ UNCHANGED <<pc, query_rx, notice_rx, busVars, writerVars>>
    /\ Acquire(c)
    /\ IF subscribe(subscriptions[c], f.sub).ok
       THEN SubscribeOk(c, f, n, subscribe(subscriptions[c], f.sub).subs)
       ELSE SubscribeErr(c, subscribe(subscriptions[c], f.sub).err)

\* SubMsg that does not look at what conn.subscribe returned
SubMsgIgnoreErr(c, f, n) ==
    /\ UNCHANGED <<pc, query_rx, notice_rx, busVars, writerVars>>
    /\ IF has_subscription(subscriptions[c], f.sub)
       THEN UNCHANGED <<subscriptions, running_queries, queries, log, sub_lim_opt>>
       ELSE /\ Acquire(c)
            /\ SubscribeOk(c, f, n, subscribe(subscriptions[c], f.sub).subs)

\* Ok(NostrMessage::SubMsg(s)); n is the number of stored rows the query of
\* this subscription will find
SubMsg(c, f, n) ==
    /\ UNCHANGED <<pc, query_rx, notice_rx, busVars, writerVars>>
    /\ IF has_subscription(subscriptions[c], f.sub)
       THEN UNCHANGED <<subscriptions, running_queries, queries, log, sub_lim_opt>>
       ELSE /\ Acquire(c)
            /\ IF subscribe(subscriptions[c], f.sub).ok
               THEN SubscribeOk(c, f, n, subscribe(subscriptions[c], f.sub).subs)
               ELSE SubscribeErr(c, subscribe(subscriptions[c], f.sub).err)

\* CloseMsg that leaves the subscription in conn's map
CloseMsgNoUnsubscribe(c, f) ==
    /\ UNCHANGED <<pc, query_rx, notice_rx, busVars, writerVars>>
    /\ IF f.valid
       THEN /\ running_queries' = [running_queries EXCEPT ![c] = MapDel(@, f.id)]
            /\ queries' =
                  IF f.id \in DOMAIN running_queries[c]
                  THEN LET q == running_queries[c][f.id]
                       IN [Fire(queries, q) EXCEPT
                             ![q].closed = TRUE,
                             ![q].closedAt = Len(log[c]),
                             ![q].closedPending = Pending(q),
                             ![q].closedEose = EoseQueued(q)]
                  ELSE queries
            /\ UNCHANGED <<subscriptions, log>>
       ELSE /\ UNCHANGED <<subscriptions, running_queries, queries>>
            /\ Send(c, << LogOut(make_notice_message(NoticeMessage("could not parse command")),
                                 NoId, 0, 0) >>)

\* CloseMsg that removes the cancel signal without firing it
CloseMsgNoFire(c, f) ==
    /\ UNCHANGED <<pc, query_rx, notice_rx, busVars, writerVars>>
    /\ IF f.valid
       THEN /\ running_queries' = [running_queries EXCEPT ![c] = MapDel(@, f.id)]
            /\ queries' =
                  IF f.id \in DOMAIN running_queries[c]
                  THEN LET q == running_queries[c][f.id]
                       IN [queries EXCEPT
                             ![q].closed = TRUE,
                             ![q].closedAt = Len(log[c]),
                             ![q].closedPending = Pending(q),
                             ![q].closedEose = EoseQueued(q)]
                  ELSE queries
            /\ subscriptions' = [subscriptions EXCEPT ![c] = unsubscribe(@, f.id)]
            /\ UNCHANGED log
       ELSE /\ UNCHANGED <<subscriptions, running_queries, queries>>
            /\ Send(c, << LogOut(make_notice_message(NoticeMessage("could not parse command")),
                                 NoId, 0, 0) >>)

\* CloseMsg that answers a CLOSE of an id without cancel signal with a notice
CloseMsgNoticeAbsent(c, f) ==
    /\ UNCHANGED <<pc, query_rx, notice_rx, busVars, writerVars>>
    /\ IF f.valid /\ f.id \in DOMAIN running_queries[c]
       THEN /\ running_queries' = [running_queries EXCEPT ![c] = MapDel(@, f.id)]
            /\ queries' =
                  LET q == running_queries[c][f.id]
                  IN [Fire(queries, q) EXCEPT
                        ![q].closed = TRUE,
                        ![q].closedAt = Len(log[c]),
                        ![q].closedPending = Pending(q),
                        ![q].closedEose = EoseQueued(q)]
            /\ subscriptions' = [subscriptions EXCEPT ![c] = unsubscribe(@, f.id)]
            /\ UNCHANGED log
       ELSE /\ UNCHANGED <<subscriptions, running_queries, queries>>
            /\ Send(c, << LogOut(make_notice_message(NoticeMessage("could not parse command")),
                                 NoId, 0, 0) >>)

\* CloseMsg on tables that all connections share
CloseMsgShared(c, f) ==
    /\ UNCHANGED <<pc, query_rx, notice_rx, busVars, writerVars>>
    /\ IF f.valid
       THEN /\ running_queries' = [d \in Conns |-> MapDel(running_queries[d], f.id)]
            /\ queries' =
                  IF f.id \in DOMAIN running_queries[c]
                  THEN LET q == running_queries[c][f.id]
                       IN [Fire(queries, q) EXCEPT
                             ![q].closed = TRUE,
                             ![q].closedAt = Len(log[c]),
                             ![q].closedPending = Pending(q),
                             ![q].closedEose = EoseQueued(q)]
                  ELSE queries
            /\ subscriptions' = [d \in Conns |-> unsubscribe(subscriptions[d], f.id)]
            /\ UNCHANGED log
       ELSE /\ UNCHANGED <<subscriptions, running_queries, queries>>
            /\ Send(c, << LogOut(make_notice_message(NoticeMessage("could not parse command")),
                                 NoId, 0, 0) >>)

\* Ok(NostrMessage::CloseMsg(cc))
CloseMsg(c, f) ==
    /\ UNCHANGED <<pc, query_rx, notice_rx, busVars, writerVars>>
    /\ IF f.valid
       THEN /\ running_queries' = [running_queries EXCEPT ![c] = MapDel(@, f.id)]
            /\ queries' =
                  IF f.id \in DOMAIN running_queries[c]
                  THEN LET q == running_queries[c][f.id]
                       IN [Fire(queries, q) EXCEPT
                             ![q].closed = TRUE,
                             ![q].closedAt = Len(log[c]),
                             ![q].closedPending = Pending(q),
                             ![q].closedEose = EoseQueued(q)]
                  ELSE queries
            /\ subscriptions' = [subscriptions EXCEPT ![c] = unsubscribe(@, f.id)]
            /\ UNCHANGED log
       ELSE /\ UNCHANGED <<subscriptions, running_queries, queries>>
            /\ Send(c, << LogOut(make_notice_message(NoticeMessage("could not parse command")),
                                 NoId, 0, 0) >>)

\* Some(Ok(Message::Close(_))): the loop is left and the cleanup runs
WsClose(c) ==
    /\ Cleanup(c)
    /\ UNCHANGED <<writerVars, log, sub_lim_opt>>

\* ws_next = ws_stream.next() yields a REQ
InboundReq(c) ==
    /\ pc[c] = "loop"
    /\ nframes < MaxFrames
    /\ nframes' = nframes + 1
    /\ Touch(c)
    /\ UNCHANGED disconnects
    /\ \E f \in ReqFrames :
          /\ last' = Label("in", c, f, has_subscription(subscriptions[c], f.sub))
          /\ \E n \in 0..MaxRows : SubMsg(c, f, n)

\* ws_next = ws_stream.next() yields a CLOSE
InboundClose(c) ==
    /\ pc[c] = "loop"
    /\ nframes < MaxFrames
    /\ nframes' = nframes + 1
    /\ Touch(c)
    /\ UNCHANGED <<disconnects, sub_lim_opt>>
    /\ \E f \in CloseFrames :
          /\ last' = Label("in", c, f, f.id \in DOMAIN subscriptions[c])
          /\ CloseMsg(c, f)

\* ws_next = ws_stream.next() yields an EVENT
InboundEvent(c) ==
    /\ pc[c] = "loop"
    /\ nframes < MaxFrames
    /\ nframes' = nframes + 1
    /\ Touch(c)
    /\ UNCHANGED <<disconnects, sub_lim_opt>>
    /\ \E f \in EventFrames :
          /\ last' = Label("in", c, f, FALSE)
          /\ EventMsg(c, f)

\* ws_next = ws_stream.next() yields a Close frame
InboundWsClose(c) ==
    /\ pc[c] = "loop"
    /\ nframes < MaxFrames
    /\ nframes' = nframes + 1
    /\ Touch(c)
    /\ Disconnect(c, "normal")
    /\ last' = Label("in", c, WsCloseFrame, FALSE)
    /\ WsClose(c)

\* what ws_stream.next() yields when the stream or the transport fails:
\* the end of the stream, the errors that count as a close by the client,
\* an IO error, and an error of another kind
TransportEnds ==
    {"None", "AlreadyClosed", "ConnectionClosed", "ResetWithoutClosingHandshake",
     "Io", "Utf8"}

EndFrame(k) == InFrame(k, NoSub, NoId, NoEvent, TRUE, TRUE)

\* the label of disconnects that the arm matching k increments
EndReason(k) == IF k \in {"Io", "Utf8"} THEN "error" ELSE "normal"

\* InboundEnd that counts every failure as a close by the client
InboundEndAllNormal(c, k) ==
    /\ pc[c] = "loop"
    /\ nframes < MaxFrames
    /\ nframes' = nframes + 1
    /\ Touch(c)
    /\ Disconnect(c, "normal")
    /\ last' = Label("in", c, EndFrame(k), FALSE)
    /\ WsClose(c)

\* ws_next is the end of the stream or a transport error: the disconnect is
\* counted and the loop is left
InboundEnd(c, k) ==
    /\ pc[c] = "loop"
    /\ nframes < MaxFrames
    /\ nframes' = nframes + 1
    /\ Touch(c)
    /\ Disconnect(c, EndReason(k))
    /\ last' = Label("in", c, EndFrame(k), FALSE)
    /\ WsClose(c)

\* --------------------------------------- frames as the transport yields them

\* limits.max_event_bytes and limits.max_ws_message_bytes when they are set
MaxEventBytes == 64
MaxWsMessageBytes == 128

\* a text frame that serde_json does not parse into a NostrMessage
Garbage == InFrame("garbage", NoSub, NoId, NoEvent, FALSE, TRUE)

\* what ws_stream.next() yields: a text frame of len bytes that parses to
\* body, a binary frame, or the transport's error for a message of len
\* bytes that is over its limit
WsItem(kind, len, body) == [kind |-> kind, len |-> len, body |-> body]

TextBodies ==
    ReqFrames \cup { InFrame("CLOSE", NoSub, IdA, NoEvent, TRUE, TRUE), Garbage }
       \cup EventFrames

WsItems ==
    { WsItem("Text", n, b) : n \in {MaxEventBytes, MaxEventBytes + 1}, b \in TextBodies }
       \cup { WsItem("Binary", MaxEventBytes, NoFrame),
              WsItem("TooLong", MaxWsMessageBytes + 1, NoFrame) }

\* convert_to_msg that applies a limit of zero bytes as well
convert_to_msg_zero_limit(msg, max_bytes) ==
    IF msg.body.t = "garbage"
    THEN [ok |-> FALSE, err |-> "ProtoParseError", m |-> NoFrame]
    ELSE IF /\ msg.body.t = "EVENT"
            /\ \E max_size \in max_bytes : msg.len > max_size
         THEN [ok |-> FALSE, err |-> "EventMaxLengthError", m |-> NoFrame]
         ELSE [ok |-> TRUE, err |-> "", m |-> msg.body]

\* convert_to_msg: the parsed message, or the error; only a frame that
\* parses as an EVENT is measured against max_bytes
convert_to_msg(msg, max_bytes) ==
    IF msg.body.t = "garbage"
    THEN [ok |-> FALSE, err |-> "ProtoParseError", m |-> NoFrame]
    ELSE IF /\ msg.body.t = "EVENT"
            /\ \E max_size \in max_bytes : msg.len > max_size /\ max_size > 0
         THEN [ok |-> FALSE, err |-> "EventMaxLengthError", m |-> NoFrame]
         ELSE [ok |-> TRUE, err |-> "", m |-> msg.body]

\* NoticeOnly that sends nothing
NoticeOnlySilent(c, text) ==
    UNCHANGED <<log, connVars, queries, query_rx, notice_rx, busVars, writerVars,
                sub_lim_opt>>

\* ws_stream.send of a NOTICE, and nothing else
NoticeOnly(c, text) ==
    /\ Send(c, << LogOut(make_notice_message(NoticeMessage(text)), NoId, 0, 0) >>)
    /\ UNCHANGED <<connVars, queries, query_rx, notice_rx, busVars, writerVars,
                   sub_lim_opt>>

\* match nostr_msg: the arms of the three commands
Dispatch(c, f) ==
    IF f.t = "EVENT" THEN EventMsg(c, f) /\ UNCHANGED sub_lim_opt
    ELSE IF f.t = "REQ" THEN \E n \in 0..MaxRows : SubMsg(c, f, n)
    ELSE CloseMsg(c, f) /\ UNCHANGED sub_lim_opt

\* the handling of the item x that ws_stream.next() yielded
Handle(c, x) ==
    IF x.kind = "Pong"
    THEN UNCHANGED <<log, connVars, queries, query_rx, notice_rx, busVars, writerVars,
                     sub_lim_opt>>
    ELSE IF x.kind = "Binary" THEN NoticeOnly(c, "binary messages are not accepted")
    ELSE IF x.kind = "TooLong"
    THEN NoticeOnly(c, "message too large (" \o ToString(x.len) \o " > "
                          \o ToString(MaxWsMessageBytes) \o ")")
    ELSE LET r == convert_to_msg(x, settings.max_event_bytes)
         IN IF r.ok THEN Dispatch(c, r.m)
            ELSE IF r.err = "EventMaxLengthError"
                 THEN NoticeOnly(c, "event exceeded max size")
                 ELSE NoticeOnly(c, "could not parse command")

\* a frame from the client reaches the websocket stream of connection c
Arrive(c, x) ==
    /\ Running(c)
    /\ nframes + Len(inbox[c]) < MaxFrames
    /\ inbox' = [inbox EXCEPT ![c] = Append(@, x)]
    /\ arrivals' = [arrivals EXCEPT ![c] =
                        [last |-> now,
                         gap |-> IF now - @.last > @.gap THEN now - @.last ELSE @.gap]]
    /\ last' = Other
    /\ UNCHANGED <<progVars, settings, http, now, ping_at, pings, sup, shutdown_rx>>

\* ReadNext that takes the frame that arrived last
ReadNewest(c) ==
    /\ pc[c] = "loop"
    /\ inbox[c] # <<>>
    /\ nframes' = nframes + 1
    /\ inbox' = [inbox EXCEPT ![c] = SubSeq(@, 1, Len(@) - 1)]
    /\ last_message_time' = [last_message_time EXCEPT ![c] = now]
    /\ last' = Label("in", c, inbox[c][Len(inbox[c])].body, FALSE)
    /\ Handle(c, inbox[c][Len(inbox[c])])
    /\ UNCHANGED <<settings, http, arrivals, now, ping_at, pings, sup, shutdown_rx, disconnects>>

\* ReadNext that does not count a Ping or a Pong as activity
ReadNextPongIdle(c) ==
    /\ pc[c] = "loop"
    /\ inbox[c] # <<>>
    /\ nframes' = nframes + 1
    /\ inbox' = [inbox EXCEPT ![c] = Tail(@)]
    /\ last_message_time' =
          IF Head(inbox[c]).kind = "Pong" THEN last_message_time
          ELSE [last_message_time EXCEPT ![c] = now]
    /\ last' = Label("in", c, Head(inbox[c]).body, FALSE)
    /\ Handle(c, Head(inbox[c]))
    /\ UNCHANGED <<settings, http, arrivals, now, ping_at, pings, sup, shutdown_rx, disconnects>>

\* ws_next = ws_stream.next(): the oldest frame that has arrived is taken
\* and handled to the end before the loop selects again
ReadNext(c) ==
    /\ pc[c] = "loop"
    /\ inbox[c] # <<>>
    /\ nframes' = nframes + 1
    /\ inbox' = [inbox EXCEPT ![c] = Tail(@)]
    /\ last_message_time' = [last_message_time EXCEPT ![c] = now]
    /\ last' = Label("in", c, Head(inbox[c]).body, FALSE)
    /\ Handle(c, Head(inbox[c]))
    /\ UNCHANGED <<settings, http, arrivals, now, ping_at, pings, sup, shutdown_rx, disconnects>>

\* the handler of item x sends the event of x to the writer
Sendable(x) ==
    /\ x.kind = "Text"
    /\ LET r == convert_to_msg(x, settings.max_event_bytes)
       IN r.ok /\ r.m.t = "EVENT" /\ r.m.valid /\ r.m.ts_ok

\* ReadBlocks that gives the event up when the submission channel is full
ReadBlocksDrops(c) ==
    /\ pc[c] = "loop"
    /\ inbox[c] # <<>>
    /\ Sendable(Head(inbox[c]))
    /\ Len(event_tx) >= PersistBuffer
    /\ inbox' = [inbox EXCEPT ![c] = Tail(@)]
    /\ nframes' = nframes + 1
    /\ last_message_time' = [last_message_time EXCEPT ![c] = now]
    /\ last' = Label("in", c, Head(inbox[c]).body, FALSE)
    /\ UNCHANGED <<connVars, queries, query_rx, notice_rx, busVars, writerVars, log,
                   disconnects, sub_lim_opt, settings, http, arrivals, now, ping_at,
                   pings, sup, shutdown_rx>>

\* ws_next = ws_stream.next() yields an EVENT that is to be sent to the
\* writer while the submission channel is full: the handler is suspended
\* in event_tx.send(submit_event).await, the frame still in its hands
ReadBlocks(c) ==
    /\ pc[c] = "loop"
    /\ inbox[c] # <<>>
    /\ Sendable(Head(inbox[c]))
    /\ Len(event_tx) >= PersistBuffer
    /\ pc' = [pc EXCEPT ![c] = "sending"]
    /\ last_message_time' = [last_message_time EXCEPT ![c] = now]
    /\ last' = Label("in", c, Head(inbox[c]).body, FALSE)
    /\ UNCHANGED <<subscriptions, running_queries, queries, query_rx, notice_rx,
                   busVars, writerVars, log, nframes, disconnects, sub_lim_opt,
                   auxVars>>

\* event_tx.send(submit_event).await returns: the channel has room, the
\* event is enqueued and the loop selects again
SendResumes(c) ==
    /\ pc[c] = "sending"
    /\ Len(event_tx) < PersistBuffer
    /\ event_tx' = Append(event_tx,
                          SubmittedEvent(Head(inbox[c]).body.ev, c, Len(subm) + 1))
    /\ subm' = Append(subm, [conn |-> c, ev |-> Head(inbox[c]).body.ev,
                             res |-> "queued", told |-> FALSE])
    /\ inbox' = [inbox EXCEPT ![c] = Tail(@)]
    /\ nframes' = nframes + 1
    /\ pc' = [pc EXCEPT ![c] = "loop"]
    /\ last' = Other
    /\ UNCHANGED <<subscriptions, running_queries, queries, query_rx, notice_rx,
                   busVars, repo, published, log, idleVars, settings, http, arrivals,
                   now, ping_at, pings, sup, shutdown_rx>>

\* ------------------------------------------------ query workers (repo)

\* the worker of query q enqueues its next row, or EOSE after the last one;
\* when the connection has dropped query_rx the send fails and it stops
QueryEmit(q) ==
    /\ queries[q].state = "running"
    /\ last' = Other
    /\ UNCHANGED <<connVars, notice_rx, busVars, writerVars, log, nframes, auxVars, idleVars>>
    /\ LET c == queries[q].conn
       IN IF pc[c] = "done"
          THEN /\ queries' = [queries EXCEPT ![q].state = "aborted"]
               /\ UNCHANGED query_rx
          ELSE /\ Len(query_rx[c]) < QueryChanCap
               /\ IF queries[q].left > 0
                  THEN /\ query_rx' = [query_rx EXCEPT ![c] =
                              Append(@, QueryResultMsg(queries[q].sub, Row(queries[q].left), q))]
                       /\ queries' = [queries EXCEPT ![q].left = @ - 1]
                  ELSE /\ query_rx' = [query_rx EXCEPT ![c] =
                              Append(@, QueryResultMsg(queries[q].sub, EOSE, q))]
                       /\ queries' = [queries EXCEPT ![q].state = "done"]

\* the worker polls the cancel signal and stops when it has been fired
QueryPoll(q) ==
    /\ queries[q].state = "running"
    /\ queries[q].fired > 0
    /\ queries' = [queries EXCEPT ![q].state = "aborted"]
    /\ last' = Other
    /\ UNCHANGED <<connVars, query_rx, notice_rx, busVars, writerVars, log, nframes, auxVars, idleVars>>

\* ------------------------------------------------- the writer (db_writer)

\* bcast_tx.send(event): every receiver gets the event; a receiver that is
\* a full buffer behind loses its oldest event and is marked lagged
Publish(e) ==
    /\ bcast_rx' = [c \in Conns |->
                       IF ~Running(c) THEN bcast_rx[c]
                       ELSE IF Len(bcast_rx[c]) >= BroadcastBuffer
                            THEN Append(Tail(bcast_rx[c]), e)
                            ELSE Append(bcast_rx[c], e)]
    /\ lagged' = [c \in Conns |->
                     IF Running(c) /\ Len(bcast_rx[c]) >= BroadcastBuffer
                     THEN TRUE ELSE lagged[c]]
    /\ busstat' = [c \in Conns |->
                      IF Running(c) /\ Len(bcast_rx[c]) >= BroadcastBuffer
                      THEN [busstat[c] EXCEPT !.lost = @ + 1] ELSE busstat[c]]
    /\ published' = Append(published, e)

\* the notice channel of connection c has a receiver and room
NoticeRoom(c) == Running(c) /\ Len(notice_rx[c]) < NoticeChanCap

\* notice_tx.try_send(notice): lost when the receiver is gone or full
Notify(x, notice) ==
    notice_rx' = [notice_rx EXCEPT ![x.notice_tx] =
                     IF NoticeRoom(x.notice_tx) THEN Append(@, notice) ELSE @]

WriteResults == {"Saved", "Duplicate", "Error"}

\* what repo.write_event answers for event e: a stored event is a
\* duplicate, a new one is stored unless the store fails
write_event(e) == IF e \in repo THEN {"Duplicate"} ELSE {"Saved", "Error"}

WriteMsg(res) ==
    CASE res = "Saved" -> "stored"
      [] res = "Duplicate" -> "duplicate: already have this event"
      [] OTHER -> "error: could not write event"

\* the writer takes one submission from the channel
WriterStep(res) ==
    /\ event_tx # <<>>
    /\ res \in write_event(Head(event_tx).event)
    /\ LET x == Head(event_tx)
       IN /\ event_tx' = Tail(event_tx)
          /\ subm' = [subm EXCEPT ![x.sid].res = res,
                                   ![x.sid].told = NoticeRoom(x.notice_tx)]
          /\ repo' = IF res = "Saved" THEN repo \cup {x.event} ELSE repo
          /\ IF res = "Saved"
             THEN Publish(x.event)
             ELSE UNCHANGED <<bcast_rx, lagged, busstat, published>>
          /\ Notify(x, Notice("EventResult", x.event, res, WriteMsg(res), x.sid))
    /\ last' = Other
    /\ UNCHANGED <<connVars, queries, query_rx, log, nframes, auxVars, idleVars>>

\* ------------------------------------------ the supervisor and shutdown

\* invoke_shutdown.send(()).ok(): every connection in its loop holds a
\* receiver (stop.subscribe()) and gets the message; so does the receiver
\* webserver_shutdown_listen of the listener, which reads sup.sent
Broadcast ==
    shutdown_rx' = [c \in Conns |->
                       IF Running(c) THEN shutdown_rx[c] + 1 ELSE shutdown_rx[c]]

\* the process is sent SIGINT
Sigint ==
    /\ ~sup.sigint
    /\ sup' = [sup EXCEPT !.sigint = TRUE]
    /\ last' = Other
    /\ UNCHANGED <<progVars, envVars, shutdown_rx>>

\* the process is sent SIGTERM
Sigterm ==
    /\ ~sup.sigterm
    /\ sup' = [sup EXCEPT !.sigterm = TRUE]
    /\ last' = Other
    /\ UNCHANGED <<progVars, envVars, shutdown_rx>>

\* the embedding program sends () on the channel of shutdown_rx
ShutdownRequest ==
    /\ ~sup.request
    /\ sup' = [sup EXCEPT !.request = TRUE]
    /\ last' = Other
    /\ UNCHANGED <<progVars, envVars, shutdown_rx>>

\* the task that awaits tokio::signal::ctrl_c() and then sends on
\* ctrl_c_shutdown
CtrlCTask ==
    /\ sup.sigint
    /\ sup.ctrl_c_task = "waiting"
    /\ sup' = [sup EXCEPT !.ctrl_c_task = "done", !.sent = @ + 1]
    /\ Broadcast
    /\ last' = Other
    /\ UNCHANGED <<progVars, envVars>>

\* the task that waits on shutdown_rx.recv() and then sends on
\* controlled_shutdown
ControlTask ==
    /\ sup.request
    /\ sup.control_task = "waiting"
    /\ sup' = [sup EXCEPT !.control_task = "done", !.sent = @ + 1]
    /\ Broadcast
    /\ last' = Other
    /\ UNCHANGED <<progVars, envVars>>

\* ctrl_c_or_signal(webserver_shutdown_listen) returns, on the shutdown
\* message, on SIGINT or on SIGTERM, and with_graceful_shutdown begins
Listener ==
    /\ sup.listener = "serving"
    /\ sup.sent > 0 \/ sup.sigint \/ sup.sigterm
    /\ sup' = [sup EXCEPT !.listener = "shutdown"]
    /\ last' = Other
    /\ UNCHANGED <<progVars, envVars, shutdown_rx>>

\* ShutdownBranch that leaves the loop without counting the disconnect
ShutdownBranchNoCount(c) ==
    /\ pc[c] = "loop"
    /\ shutdown_rx[c] > 0
    /\ Cleanup(c)
    /\ last' = Label("shutdown", c, NoFrame, FALSE)
    /\ UNCHANGED <<writerVars, log, nframes, auxVars, idleVars>>

\* _ = shutdown.recv(): the disconnect is counted and the loop is left
ShutdownBranch(c) ==
    /\ pc[c] = "loop"
    /\ shutdown_rx[c] > 0
    /\ Disconnect(c, "shutdown")
    /\ Cleanup(c)
    /\ last' = Label("shutdown", c, NoFrame, FALSE)
    /\ UNCHANGED <<writerVars, log, nframes, auxVars, last_message_time, sub_lim_opt>>

\* ------------------------------------------- the clock and the ping timer

\* max_quiet_time = Duration::from_secs(60 * 20)
MaxQuiet == 1200

\* the values of network.ping_interval_seconds the model starts with
PingIntervals == {0, 300, 900, 1500}

\* the clock moves in steps of at most Grain seconds, up to MaxTime
Grain == 300
MaxTime == 3000

Min(S) == CHOOSE x \in S : \A y \in S : x <= y

\* the ticks of ping_interval that connections in their loop wait for
DueTicks == { ping_at[c] : c \in { d \in Conns : pc[d] = "loop" } }

\* a loop that is in its select takes a frame that has arrived at once,
\* compared with the grain of the clock
NoneUnread == \A c \in Conns : pc[c] = "loop" => inbox[c] = <<>>

\* time passes; a tick that is due is handled and a frame that has
\* arrived is read before the clock moves on
Advance ==
    /\ now < MaxTime
    /\ NoneUnread
    /\ \A c \in Conns : pc[c] = "loop" => now < ping_at[c]
    /\ now' = Min({now + Grain, MaxTime} \cup DueTicks)
    /\ last' = Other
    /\ UNCHANGED <<progVars, settings, http, arrivals, ping_at, inbox, pings, sup, shutdown_rx>>

\* time passes until the next tick of a connection in its loop
AdvanceToTick ==
    /\ DueTicks # {}
    /\ NoneUnread
    /\ now < Min(DueTicks)
    /\ Min(DueTicks) <= MaxTime
    /\ now' = Min(DueTicks)
    /\ last' = Other
    /\ UNCHANGED <<progVars, settings, http, arrivals, ping_at, inbox, pings, sup, shutdown_rx>>

\* time passes while a handler waits for the writer to make room; the
\* ticks that fall due and the frames that arrive wait with it
AdvanceBlocked ==
    /\ \E c \in Conns : pc[c] = "sending"
    /\ Len(event_tx) >= PersistBuffer
    /\ NoneUnread
    /\ now < MaxTime
    /\ now' = Min({now + Grain, MaxTime})
    /\ last' = Other
    /\ UNCHANGED <<progVars, settings, http, arrivals, ping_at, inbox, pings, sup,
                   shutdown_rx>>

\* PingBranch that checks idleness but sends no Ping frame
PingBranchNoPing(c) ==
    /\ pc[c] = "loop"
    /\ now >= ping_at[c]
    /\ ping_at' = [ping_at EXCEPT ![c] = @ + settings.ping_interval_seconds]
    /\ last' = Label("tick", c, NoFrame, FALSE)
    /\ IF now - last_message_time[c] > MaxQuiet
       THEN /\ Disconnect(c, "timeout")
            /\ Cleanup(c)
            /\ UNCHANGED pings
       ELSE /\ UNCHANGED <<pings, disconnects, connVars, queries, query_rx,
                           notice_rx, busVars>>
    /\ UNCHANGED <<writerVars, log, nframes, last_message_time, sub_lim_opt,
                   settings, http, arrivals, now, inbox, sup, shutdown_rx>>

\* _ = ping_interval.tick(): a connection quiet for more than max_quiet_time
\* is counted as timeout and leaves the loop; otherwise a Ping frame is sent
PingBranch(c) ==
    /\ pc[c] = "loop"
    /\ now >= ping_at[c]
    /\ ping_at' = [ping_at EXCEPT ![c] = @ + settings.ping_interval_seconds]
    /\ last' = Label("tick", c, NoFrame, FALSE)
    /\ IF now - last_message_time[c] > MaxQuiet
       THEN /\ Disconnect(c, "timeout")
            /\ Cleanup(c)
            /\ UNCHANGED pings
       ELSE /\ pings' = [pings EXCEPT ![c] = Append(@, now)]
            /\ UNCHANGED <<disconnects, connVars, queries, query_rx,
                           notice_rx, busVars>>
    /\ UNCHANGED <<writerVars, log, nframes, last_message_time, sub_lim_opt,
                   settings, http, arrivals, now, inbox, sup, shutdown_rx>>

PongFrame == InFrame("Pong", NoSub, NoId, NoEvent, TRUE, TRUE)

\* ws_next yields a Ping or a Pong frame: the loop continues
InboundPong(c) ==
    /\ pc[c] = "loop"
    /\ nframes < MaxFrames
    /\ nframes' = nframes + 1
    /\ Touch(c)
    /\ last' = Label("in", c, PongFrame, FALSE)
    /\ UNCHANGED <<connVars, queries, query_rx, notice_rx, busVars, writerVars,
                   log, disconnects, sub_lim_opt>>

\* ------------------------------------------- the HTTP surface

HeaderValue(visible, text) == [visible |-> visible, text |-> text]

\* Accept headers: none, and values with and without the media type of the
\* relay information document, one of them not visible ASCII
AcceptHeaders ==
    { {},
      {HeaderValue(TRUE, <<>>)},
      {HeaderValue(TRUE, <<"text/html">>)},
      {HeaderValue(TRUE, <<"application/nostr+json">>)},
      {HeaderValue(TRUE, <<"text/html", ",", "application/nostr+json">>)},
      {HeaderValue(FALSE, <<"application/nostr+json">>)} }

Requests ==
    { Request(path, method, upgrade, accept, handshake) :
        path \in {"/", "/metrics", "/favicon.ico"}, method \in {"GET", "POST"},
        upgrade \in BOOLEAN, accept \in AcceptHeaders, handshake \in BOOLEAN }

\* media_types.to_str() is Ok(mt_str) and mt_str.contains("application/nostr+json")
accepts_nostr_json(accept_header) ==
    \E media_types \in accept_header :
        /\ media_types.visible
        /\ \E i \in DOMAIN media_types.text :
              media_types.text[i] = "application/nostr+json"

\* handle_web_request with the metrics route open to requests with an
\* Upgrade header
handle_web_request_metrics_any(request) ==
    IF request.path = "/" /\ request.upgrade
    THEN IF request.handshake
         THEN Response(101, "", "", "handshake")
         ELSE Response(400, "", "", "Failed to create websocket: ")
    ELSE IF request.path = "/" /\ ~request.upgrade
    THEN IF accepts_nostr_json(request.accept)
         THEN Response(200, "application/nostr+json", "*", "RelayInfo")
         ELSE Response(200, "text/plain", "", "Please use a Nostr client to connect.")
    ELSE IF request.path = "/metrics"
    THEN Response(200, "text/plain", "", "metric_families")
    ELSE Response(404, "", "", "Nothing here.")

\* handle_web_request: the response; match (path, contains_key(UPGRADE))
handle_web_request(request) ==
    IF request.path = "/" /\ request.upgrade
    THEN IF request.handshake
         THEN Response(101, "", "", "handshake")
         ELSE Response(400, "", "", "Failed to create websocket: ")
    ELSE IF request.path = "/" /\ ~request.upgrade
    THEN IF accepts_nostr_json(request.accept)
         THEN Response(200, "application/nostr+json", "*", "RelayInfo")
         ELSE Response(200, "text/plain", "", "Please use a Nostr client to connect.")
    ELSE IF request.path = "/metrics" /\ ~request.upgrade
    THEN Response(200, "text/plain", "", "metric_families")
    ELSE Response(404, "", "", "Nothing here.")

\* the task spawned for an accepted handshake: upgrade::on fails and the
\* error is printed, or a connection that has not started enters nostr_server
Spawn ==
    \/ UNCHANGED pc
    \/ \E c \in Conns : pc[c] = "new" /\ pc' = [pc EXCEPT ![c] = "loop"]

\* the server handles one HTTP request
WebRequest ==
    /\ \E request \in Requests :
          /\ http' = [request |-> request, response |-> handle_web_request(request)]
          /\ IF handle_web_request(request).status = 101
             THEN Spawn
             ELSE UNCHANGED pc
    /\ last' = Other
    /\ UNCHANGED <<subscriptions, running_queries, queries, query_rx, notice_rx,
                   busVars, writerVars, log, nframes, idleVars, settings, arrivals,
                   now, ping_at, inbox, pings, sup, shutdown_rx>>

\* ------------------------------------------------------ specifications

\* the steps of the system with the connections in C taking part
NextOver(C) ==
    \/ \E c \in C : InboundReq(c)
    \/ \E c \in C : InboundClose(c)
    \/ \E c \in C : InboundEvent(c)
    \/ \E c \in C : InboundWsClose(c)
    \/ \E c \in C : NoticeBranch(c)
    \/ \E c \in C : QueryResultBranch(c)
    \/ \E c \in C : BroadcastBranch(c)
    \/ \E c \in C : BroadcastLagged(c)
    \/ \E q \in DOMAIN queries : QueryEmit(q)
    \/ \E q \in DOMAIN queries : QueryPoll(q)
    \/ \E res \in WriteResults : WriterStep(res)

Next == NextOver(Conns)

\* the whole system: two connections
Spec == Init /\ [][Next]_vars

\* connection 2 has ended before the first step
InitOne ==
    /\ settings = DefaultSettings
    /\ pc = [c \in Conns |-> IF c = 1 THEN "loop" ELSE "done"]
    /\ InitRest

NextOne == NextOver({1})

\* one connection alone
SpecOne == InitOne /\ [][NextOne]_vars

\* the system, clients that subscribe and leave, and the supervisor
NextShut ==
    \/ \E c \in Conns : InboundReq(c)
    \/ \E c \in Conns : InboundWsClose(c)
    \/ Sigint
    \/ Sigterm
    \/ ShutdownRequest
    \/ CtrlCTask
    \/ ControlTask
    \/ Listener
    \/ \E c \in Conns : ShutdownBranch(c)

SpecShut == Init /\ [][NextShut]_vars

\* tokio::select! polls its branches in random order, so a branch that
\* stays ready is taken; the supervisor's tasks run once their signal is in
FairShut ==
    /\ \A c \in Conns : WF_vars(ShutdownBranch(c))
    /\ WF_vars(CtrlCTask)
    /\ WF_vars(ControlTask)
    /\ WF_vars(Listener)

SpecShutFair == Init /\ [][NextShut]_vars /\ FairShut

\* one connection under each ping interval; tokio::time::interval_at panics
\* on a zero period, before the loop is entered
InitPing ==
    /\ settings \in { [DefaultSettings EXCEPT !.ping_interval_seconds = p] :
                          p \in PingIntervals }
    /\ pc = [c \in Conns |-> IF c # 1 THEN "done"
                              ELSE IF settings.ping_interval_seconds = 0
                                   THEN "panic" ELSE "loop"]
    /\ InitRest

NextPing ==
    \/ Advance
    \/ PingBranch(1)
    \/ InboundPong(1)
    \/ InboundWsClose(1)

SpecPing == InitPing /\ [][NextPing]_vars

\* one connection with its subscriptions and queries, and every way its
\* loop ends: a Close frame, the end of the stream, a transport error, the
\* idle check and the shutdown message
NextExit ==
    \/ InboundReq(1)
    \/ InboundClose(1)
    \/ InboundWsClose(1)
    \/ \E k \in TransportEnds : InboundEnd(1, k)
    \/ QueryResultBranch(1)
    \/ \E q \in DOMAIN queries : QueryEmit(q)
    \/ \E q \in DOMAIN queries : QueryPoll(q)
    \/ AdvanceToTick
    \/ PingBranch(1)
    \/ ShutdownRequest
    \/ ControlTask
    \/ ShutdownBranch(1)

\* one connection, pinged every 15 minutes
InitExit ==
    /\ settings = [DefaultSettings EXCEPT !.ping_interval_seconds = 900]
    /\ pc = [c \in Conns |-> IF c = 1 THEN "loop" ELSE "done"]
    /\ InitRest

SpecExit == InitExit /\ [][NextExit]_vars

\* the configurations of the two limits an inbound EVENT is checked against
InboundSettings ==
    { [DefaultSettings EXCEPT !.reject_future_seconds = r, !.max_event_bytes = m] :
        r \in {{}, {fut_sec}}, m \in {{}, {0}, {MaxEventBytes}} }

InitIn ==
    /\ settings \in InboundSettings
    /\ pc = [c \in Conns |-> IF c = 1 THEN "loop" ELSE "done"]
    /\ InitRest

\* one connection reading the frames that arrive, and the writer
NextIn ==
    \/ \E x \in WsItems : Arrive(1, x)
    \/ ReadNext(1)
    \/ NoticeBranch(1)
    \/ \E res \in WriteResults : WriterStep(res)

SpecIn == InitIn /\ [][NextIn]_vars

\* two connections that subscribe, publish and read the bus or fall behind
NextBus ==
    \/ \E c \in Conns : InboundReq(c)
    \/ \E c \in Conns : InboundEvent(c)
    \/ \E c \in Conns : InboundWsClose(c)
    \/ \E c \in Conns : NoticeBranch(c)
    \/ \E c \in Conns : BroadcastBranch(c)
    \/ \E c \in Conns : BroadcastLagged(c)
    \/ \E res \in WriteResults : WriterStep(res)

SpecBus == Init /\ [][NextBus]_vars

\* the three kinds of value of limits.subscriptions_per_min
LimitSettings ==
    { [DefaultSettings EXCEPT !.subscriptions_per_min = o] :
        o \in {{}, {0}, {SubsPerMin}} }

InitLim ==
    /\ settings \in LimitSettings
    /\ pc = [c \in Conns |-> "loop"]
    /\ InitRest

\* two connections that subscribe and close, each under its rate limiter
NextLim ==
    \/ \E c \in Conns : InboundReq(c)
    \/ \E c \in Conns : InboundClose(c)
    \/ \E c \in Conns : Replenish(c)

SpecLim == InitLim /\ [][NextLim]_vars

\* the frames of a client that publishes and subscribes
BackItems ==
    { WsItem("Text", MaxEventBytes, InFrame("EVENT", NoSub, NoId, e, TRUE, TRUE)) :
        e \in Events }
       \cup { WsItem("Text", MaxEventBytes,
                     InFrame("REQ", Sub(IdA, {1}, TRUE), IdA, NoEvent, TRUE, TRUE)) }

\* one connection reading the frames that arrive, the writer, and
\* every other source of the loop: the bus, notices, query results, the
\* ping timer and the shutdown message
NextBack ==
    \/ \E x \in BackItems : Arrive(1, x)
    \/ ReadNext(1)
    \/ ReadBlocks(1)
    \/ SendResumes(1)
    \/ WriterStep("Saved")
    \/ NoticeBranch(1)
    \/ BroadcastBranch(1)
    \/ QueryResultBranch(1)
    \/ \E q \in DOMAIN queries : QueryEmit(q)
    \/ AdvanceToTick
    \/ PingBranch(1)
    \/ ShutdownRequest
    \/ ControlTask
    \/ ShutdownBranch(1)

SpecBack == InitExit /\ [][NextBack]_vars

\* the frames of a client that publishes, closes a subscription and
\* answers pings
StallItems ==
    { WsItem("Text", MaxEventBytes, InFrame("EVENT", NoSub, NoId, e, TRUE, TRUE)) :
        e \in Events }
       \cup { WsItem("Text", MaxEventBytes, InFrame("CLOSE", NoSub, IdA, NoEvent, TRUE, TRUE)),
              WsItem("Pong", 0, PongFrame) }

\* one connection reading the frames that arrive, a writer that takes its
\* time, and the ping timer
NextStall ==
    \/ \E x \in StallItems : Arrive(1, x)
    \/ ReadNext(1)
    \/ ReadBlocks(1)
    \/ SendResumes(1)
    \/ WriterStep("Saved")
    \/ AdvanceToTick
    \/ AdvanceBlocked
    \/ PingBranch(1)

SpecStall == InitExit /\ [][NextStall]_vars

\* two connections, pinged every 15 minutes
InitIso ==
    /\ settings = [DefaultSettings EXCEPT !.ping_interval_seconds = 900]
    /\ pc = [c \in Conns |-> "loop"]
    /\ InitRest

\* two connections with their subscriptions, and the ways a connection
\* ends by itself: a Close frame, the end of the stream, a transport
\* error, the idle check
NextIso ==
    \/ \E c \in Conns : InboundReq(c)
    \/ \E c \in Conns : InboundClose(c)
    \/ \E c \in Conns : InboundWsClose(c)
    \/ \E c \in Conns : \E k \in TransportEnds : InboundEnd(c, k)
    \/ AdvanceToTick
    \/ \E c \in Conns : PingBranch(c)

SpecIso == InitIso /\ [][NextIso]_vars

\* the server has started and no client has connected
InitWeb ==
    /\ settings = DefaultSettings
    /\ pc = [c \in Conns |-> "new"]
    /\ InitRest

\* the HTTP requests, and the connections they open and the clients close
NextWeb ==
    \/ WebRequest
    \/ \E c \in Conns : InboundWsClose(c)

SpecWeb == InitWeb /\ [][NextWeb]_vars

\* connection 1 is in its loop and has read nothing yet; connection 2 has
\* submitted e1, the writer has saved and published it, and connection 2
\* has ended: e1 waits in the bus receiver of connection 1
InitClose ==
    /\ settings = DefaultSettings
    /\ pc = [c \in Conns |-> IF c = 1 THEN "loop" ELSE "done"]
    /\ http = NoExchange
    /\ arrivals = [c \in Conns |-> [last |-> 0, gap |-> 0]]
    /\ subscriptions = [c \in Conns |-> EmptyMap]
    /\ running_queries = [c \in Conns |-> EmptyMap]
    /\ queries = <<>>
    /\ query_rx = [c \in Conns |-> <<>>]
    /\ notice_rx = [c \in Conns |-> <<>>]
    /\ bcast_rx = [c \in Conns |-> IF c = 1 THEN <<"e1">> ELSE <<>>]
    /\ lagged = [c \in Conns |-> FALSE]
    /\ event_tx = <<>>
    /\ repo = {"e1"}
    /\ subm = << [conn |-> 2, ev |-> "e1", res |-> "Saved", told |-> FALSE] >>
    /\ published = <<"e1">>
    /\ log = [c \in Conns |-> <<>>]
    /\ busstat = [c \in Conns |-> [read |-> 0, lost |-> 0]]
    /\ last = Other
    /\ nframes = 0
    /\ sup = InitSup
    /\ shutdown_rx = [c \in Conns |-> 0]
    /\ now = 0
    /\ ping_at = [c \in Conns |-> settings.ping_interval_seconds]
    /\ inbox = [c \in Conns |-> <<>>]
    /\ pings = [c \in Conns |-> <<>>]
    /\ disconnects = [c \in Conns |-> [r \in Reasons |-> 0]]
    /\ last_message_time = [c \in Conns |-> 0]
    /\ sub_lim_opt = [c \in Conns |-> NewLimiter(settings)]

\* one connection that subscribes, closes, submits and reads a bus that
\* holds an event from before its first frame
SpecClose == InitClose /\ [][NextOne]_vars

\* ------------------------------------------------------------ the claims

\* the step that is being taken handles inbound frame type t on connection c
Handles(c, t) == last'.k = "in" /\ last'.c = c /\ last'.f.t = t

\* the queries started for sub id on connection c that no CLOSE has ended
OpenQueries(c, id) ==
    { q \in DOMAIN queries :
        /\ queries[q].conn = c /\ queries[q].sub = id
        /\ queries[q].state # "none" /\ ~queries[q].closed }

\* C1: a REQ whose sub id is already subscribed on the connection is
\* ignored: it starts no historical query and changes neither table, so
\* that at most one historical query is started per connection and sub id
\* between a successful REQ and the next CLOSE of that id.
C1_DuplicateReqIgnored ==
    [][\A c \in Conns :
          /\ (Handles(c, "REQ") /\ last'.had) =>
                UNCHANGED <<queries, query_rx, subscriptions, running_queries, log>>
          /\ \A id \in SubIds : Cardinality(OpenQueries(c, id))' <= 1]_vars

\* a duplicate REQ has just been handled while the query of the first REQ
\* is the one open query of its sub id
C1_Witness ==
    /\ last.k = "in" /\ last.f.t = "REQ" /\ last.had
    /\ Cardinality(OpenQueries(last.c, last.f.id)) = 1

\* the frames connection c has sent
Sent(c) == log[c]

\* the queries ended by a CLOSE that found results of theirs pending
ClosedPending == { q \in DOMAIN queries : queries[q].closedPending }

\* the places in the frames of q's connection of the frames of type t that
\* carry results of query q
ResultsAt(q, t) ==
    { i \in DOMAIN Sent(queries[q].conn) :
        Sent(queries[q].conn)[i].q = q /\ Sent(queries[q].conn)[i].f.t = t }

\* the places among the frames of connection c of the frames of type t
\* tagged tag that were sent after the first n frames
TaggedAt(c, tag, t, n) ==
    { i \in DOMAIN Sent(c) : i > n /\ Sent(c)[i].f.t = t /\ Sent(c)[i].f.sub = tag }

\* frame i of connection c is a realtime EVENT frame of subscription id
Realtime(c, i, id) ==
    Sent(c)[i].f.t = "EVENT" /\ Sent(c)[i].q = 0 /\ Sent(c)[i].key = id

\* frame i of connection c was sent while a subscription id was registered
Registered(c, i, id) ==
    \E q \in DOMAIN queries :
        /\ queries[q].conn = c /\ queries[q].sub = id
        /\ queries[q].openedAt < i
        /\ queries[q].closed => i <= queries[q].closedAt

\* C2 as stated: when a CLOSE of s finds results of the query of s pending,
\* then among the frames tagged s sent since the REQ no EVENT frame comes
\* after an EOSE frame.
C2_AsStated ==
    \A q \in ClosedPending :
        \A i \in TaggedAt(queries[q].conn, subesc(queries[q].sub), "EOSE", queries[q].openedAt) :
            \A j \in TaggedAt(queries[q].conn, subesc(queries[q].sub), "EVENT", queries[q].openedAt) :
                j < i

\* C2: when a CLOSE of s finds results of the query of s pending, the
\* frames that carry results of that query are EVENT frames followed by at
\* most one EOSE frame, no EVENT frame of the query coming after its EOSE,
\* and a realtime EVENT frame of subscription s sent after the CLOSE is
\* sent for a later REQ s that was accepted.
C2_CloseRace ==
    \A q \in ClosedPending :
        /\ Cardinality(ResultsAt(q, "EOSE")) <= 1
        /\ \A i \in ResultsAt(q, "EOSE") : \A j \in ResultsAt(q, "EVENT") : j < i
        /\ \A i \in DOMAIN Sent(queries[q].conn) :
              (i > queries[q].closedAt /\ Realtime(queries[q].conn, i, queries[q].sub))
                  => Registered(queries[q].conn, i, queries[q].sub)

\* a CLOSE found a row and the EOSE of its query pending, and both have
\* been sent after it
C2_Witness ==
    \E q \in ClosedPending :
        /\ \E i \in ResultsAt(q, "EOSE") : i > queries[q].closedAt
        /\ \E j \in ResultsAt(q, "EVENT") : j > queries[q].closedAt

\* C3 as stated: after a CLOSE of s has been handled while the historical
\* query of s was in flight, no EOSE frame of that query is sent, also when
\* the EOSE was in the query result channel when the CLOSE was handled.
C3_AsStated ==
    \A q \in { x \in DOMAIN queries : queries[x].closedEose } :
        \A i \in ResultsAt(q, "EOSE") : i <= queries[q].closedAt

\* the queries ended by a CLOSE
Closed == { q \in DOMAIN queries : queries[q].closed }

\* C3: a CLOSE of s fires the cancel signal of the query of s, and once the
\* worker has seen the signal and stopped, no EOSE of that query is queued
\* or sent; at most one EOSE frame is sent for the query, which can be
\* after the CLOSE when the worker had not yet stopped.
C3_CancelStopsEose ==
    \A q \in Closed :
        /\ queries[q].fired >= 1
        /\ queries[q].state = "aborted" =>
              (ResultsAt(q, "EOSE") = {} /\ ~EoseQueued(q))
        /\ Cardinality(ResultsAt(q, "EOSE")) <= 1
        /\ queries[q].state = "none" => ResultsAt(q, "EOSE") = {}

\* the EOSE of a query was queued when its CLOSE was handled, the cancel
\* signal was fired, and the EOSE frame has been sent after the CLOSE
C3_Witness ==
    \E q \in Closed :
        /\ queries[q].closedEose /\ queries[q].fired >= 1
        /\ \E i \in ResultsAt(q, "EOSE") : i > queries[q].closedAt

\* the cancel signals made for the REQs of id that connection c accepted
Accepted(c, id) ==
    { q \in DOMAIN queries : queries[q].conn = c /\ queries[q].sub = id }

\* those of them whose subscription no CLOSE has removed
Held(c, id) == { q \in Accepted(c, id) : ~queries[q].closed }

\* those of them that have not been fired
Live(c, id) == { q \in Accepted(c, id) : queries[q].fired = 0 }

\* C4: on a connection in its loop, of the subscriptions accepted under a
\* sub id at most one is in the subscription table, and of the cancel
\* signals made for that id at most one is in the running-queries table:
\* an entry is never added under an id that has one.
C4_OneEntryPerId ==
    \A c \in Conns : pc[c] = "loop" =>
        \A id \in SubIds :
            /\ Cardinality(Held(c, id)) <= 1
            /\ Cardinality(Live(c, id)) <= 1
            /\ id \in DOMAIN subscriptions[c] <=> Held(c, id) # {}
            /\ id \in DOMAIN running_queries[c] <=> Live(c, id) # {}
            /\ id \in DOMAIN running_queries[c] =>
                  running_queries[c][id] \in Live(c, id) \cap Held(c, id)

\* a sub id has been subscribed, closed and subscribed again: two cancel
\* signals were made for it and one entry is in each table
C4_Witness ==
    \E c \in Conns : \E id \in SubIds :
        /\ pc[c] = "loop"
        /\ Cardinality(Accepted(c, id)) = 2
        /\ id \in DOMAIN subscriptions[c]
        /\ id \in DOMAIN running_queries[c]

\* C5: a CLOSE of a sub id that has no subscription on the connection
\* changes neither the subscription table nor the running-queries table,
\* fires no cancel signal, sends no frame and leaves the connection in
\* its loop.
C5_CloseIdempotent ==
    [][\A c \in Conns :
          (Handles(c, "CLOSE") /\ ~last'.had) =>
              /\ UNCHANGED <<subscriptions, running_queries, queries, log>>
              /\ pc'[c] = "loop"]_vars

\* the second of two CLOSEs of a sub id has just been handled
C5_Witness ==
    /\ last.k = "in" /\ last.f.t = "CLOSE" /\ ~last.had
    /\ \E q \in Accepted(last.c, last.f.id) : queries[q].closed
    /\ Held(last.c, last.f.id) = {}

\* connection c holds as many subscriptions as it may
AtLimit(c) == Cardinality(DOMAIN subscriptions[c]) >= MaxSubs

\* C6: a connection never holds more subscriptions than the limit; a REQ
\* of a new sub id on a connection at the limit is answered with one NOTICE
\* frame, adds no subscription and no running-queries entry, starts no
\* historical query, and leaves the connection in its loop.
C6_SubscriptionLimit ==
    [][\A c \in Conns :
          /\ Cardinality(DOMAIN subscriptions'[c]) <= MaxSubs
          /\ (Handles(c, "REQ") /\ ~last'.had /\ AtLimit(c)) =>
                /\ Len(log'[c]) = Len(log[c]) + 1
                /\ SubSeq(log'[c], 1, Len(log[c])) = log[c]
                /\ log'[c][Len(log'[c])].f.t = "NOTICE"
                /\ UNCHANGED <<subscriptions, running_queries, queries, query_rx>>
                /\ pc'[c] = "loop"]_vars

\* a REQ of a new sub id has just been refused on a connection at the limit
C6_Witness ==
    /\ last.k = "in" /\ last.f.t = "REQ" /\ ~last.had
    /\ Cardinality(DOMAIN subscriptions[last.c]) = MaxSubs
    /\ last.f.id \notin DOMAIN subscriptions[last.c]
    /\ log[last.c] # <<>>
    /\ log[last.c][Len(log[last.c])].f =
          Wire("NOTICE", NoId, NoEvent, FALSE, "Subscription error: SubMaxExceededError")

\* the submissions the writer reported as stored
Stored == { i \in DOMAIN subm : subm[i].res = "Saved" }

\* the places among the frames of connection c of the frames that answer
\* submission i
AnswersAt(c, i) == { k \in DOMAIN Sent(c) : Sent(c)[k].sid = i }

\* the notices for submission i waiting in the notice channel of connection c
NoticesAt(c, i) == { k \in DOMAIN notice_rx[c] : notice_rx[c][k].sid = i }

\* the frame OK(true, "stored") for event e
OkStored(e) == Wire("OK", NoId, e, TRUE, "stored")

\* C7 as stated, for the connections that have ended: every submission
\* reported as stored has been answered by exactly one OK(true) frame on
\* the submitting connection.
C7_AsStated ==
    \A i \in Stored :
        pc[subm[i].conn] = "done" =>
            Cardinality(AnswersAt(subm[i].conn, i)) = 1

\* what holds of the answers to the stored submissions in a state
OkOnce ==
    \A i \in Stored :
        /\ \A c \in Conns \ {subm[i].conn} : AnswersAt(c, i) = {} /\ NoticesAt(c, i) = {}
        /\ \A k \in AnswersAt(subm[i].conn, i) :
              Sent(subm[i].conn)[k].f = OkStored(subm[i].ev)
        /\ Cardinality(AnswersAt(subm[i].conn, i))
              + Cardinality(NoticesAt(subm[i].conn, i)) <= 1
        /\ (subm[i].told /\ pc[subm[i].conn] = "loop") =>
              Cardinality(AnswersAt(subm[i].conn, i))
                 + Cardinality(NoticesAt(subm[i].conn, i)) = 1
        /\ ~subm[i].told => AnswersAt(subm[i].conn, i) = {}

\* a connection in its loop that never lagged has read or still holds
\* every published event
BusComplete ==
    \A c \in Conns :
        (pc[c] = "loop" /\ busstat[c].lost = 0) =>
            busstat[c].read + Len(bcast_rx[c]) = Len(published)

\* the frames the step that is being taken adds for connection c
NewFrames(c) == SubSeq(log'[c], Len(log[c]) + 1, Len(log'[c]))

\* C7: a submission reported as stored is answered on the submitting
\* connection by at most one frame, the frame OK(true, "stored"), and by
\* exactly one once its notice, if the writer could queue it, has been
\* taken from the notice channel of a connection still in its loop; a
\* connection in its loop that never lagged reads every published event,
\* and when it reads one it sends at least one EVENT frame with that event
\* for every subscription it holds then that matches.
C7_StoredAnswered ==
    [][/\ OkOnce'
       /\ BusComplete'
       /\ \A c \in Conns :
             (last'.k = "bus" /\ last'.c = c) =>
                 \A id \in DOMAIN subscriptions[c] :
                     interested_in_event(subscriptions[c][id], Head(bcast_rx[c])) =>
                         \E k \in DOMAIN NewFrames(c) :
                             /\ NewFrames(c)[k].f.t = "EVENT"
                             /\ NewFrames(c)[k].f.ev = Head(bcast_rx[c])
                             /\ NewFrames(c)[k].key = id]_vars

\* connection 1 submitted an event that was stored and has sent its OK,
\* and connection 2, which never lagged, has sent an EVENT frame with it
C7_Witness ==
    \E i \in Stored :
        /\ subm[i].conn = 1
        /\ Cardinality(AnswersAt(1, i)) = 1
        /\ busstat[2].lost = 0
        /\ \E k \in DOMAIN Sent(2) :
              Sent(2)[k].f.t = "EVENT" /\ Sent(2)[k].f.ev = subm[i].ev /\ Sent(2)[k].q = 0

\* the frame OK(true, "duplicate: already have this event") for event e
OkDuplicate(e) == Wire("OK", NoId, e, TRUE, "duplicate: already have this event")

\* the places of event e among the events published on the bus
PublishedAt(e) == { k \in DOMAIN published : published[k] = e }

Uncancelled ==
    { q \in DOMAIN queries : queries[q].state # "none" /\ queries[q].fired = 0 }

\* C9: for a historical query that is not cancelled, every EVENT frame
\* that carries one of its rows is sent before its EOSE frame, at most one
\* EOSE frame is sent for it, the EOSE frame comes after all its rows, and
\* once the worker has finished and the connection has taken all its
\* results, exactly one EOSE frame has been sent.
C9_HistoricalBeforeEose ==
    \A q \in Uncancelled :
        /\ \A i \in ResultsAt(q, "EOSE") : \A j \in ResultsAt(q, "EVENT") : j < i
        /\ Cardinality(ResultsAt(q, "EOSE")) <= 1
        /\ ResultsAt(q, "EOSE") # {} =>
              Cardinality(ResultsAt(q, "EVENT")) = queries[q].total
        /\ (queries[q].state = "done" /\ ~Pending(q)) =>
              Cardinality(ResultsAt(q, "EOSE")) = 1
        /\ \A i \in ResultsAt(q, "EOSE") \cup ResultsAt(q, "EVENT") :
              Sent(queries[q].conn)[i].f.sub = subesc(queries[q].sub)

\* a query that is not cancelled has found a row, and its EVENT frame and
\* its EOSE frame have been sent
C9_Witness ==
    \E q \in Uncancelled :
        /\ queries[q].total >= 1
        /\ ResultsAt(q, "EVENT") # {}
        /\ ResultsAt(q, "EOSE") # {}

\* the step that is being taken is connection c reading an event from the bus
ReadsBus(c) == last'.k = "bus" /\ last'.c = c

\* the subscriptions of connection c that match the event it reads next
Matching(c) ==
    { id \in DOMAIN subscriptions[c] :
        interested_in_event(subscriptions[c][id], Head(bcast_rx[c])) }

\* the places among the frames the step adds for connection c of those
\* sent for subscription id
NewFor(c, id) == { k \in DOMAIN NewFrames(c) : NewFrames(c)[k].key = id }

\* C10 as stated: when a connection reads an event from the bus it sends,
\* for each registered subscription that matches, exactly one EVENT frame
\* tagged with the id of the subscription, and no frame for the others.
C10_AsStated ==
    [][\A c \in Conns : ReadsBus(c) =>
          /\ Len(NewFrames(c)) = Cardinality(Matching(c))
          /\ \A id \in Matching(c) :
                /\ Cardinality(NewFor(c, id)) = 1
                /\ \A k \in NewFor(c, id) :
                      NewFrames(c)[k].f = Wire("EVENT", id, Head(bcast_rx[c]), FALSE, "")
          /\ \A id \in SubIds \ Matching(c) : NewFor(c, id) = {}]_vars

\* C10: when a connection reads an event from the bus it sends, for each
\* registered subscription that matches, exactly one EVENT frame with the
\* event, tagged with the id of the subscription with every double quote
\* taken out, and it sends no other frame.
C10_RealtimeFrames ==
    [][\A c \in Conns : ReadsBus(c) =>
          /\ SubSeq(log'[c], 1, Len(log[c])) = log[c]
          /\ Len(NewFrames(c)) = Cardinality(Matching(c))
          /\ \A id \in Matching(c) :
                /\ Cardinality(NewFor(c, id)) = 1
                /\ \A k \in NewFor(c, id) :
                      NewFrames(c)[k].f =
                         Wire("EVENT", subesc(id), Head(bcast_rx[c]), FALSE, "")
          /\ \A id \in SubIds \ Matching(c) : NewFor(c, id) = {}]_vars

\* a connection with one subscription that matches, whose id holds a
\* double quote, and one that does not match has read an event from the
\* bus and sent one frame
C10_Witness ==
    /\ last.k = "bus"
    /\ DOMAIN subscriptions[last.c] = {IdAq, IdB}
    /\ Len(log[last.c]) = 1
    /\ log[last.c][1] = LogOut(Wire("EVENT", IdA, "e1", FALSE, ""), IdAq, 0, 0)

\* the shutdown message reached connection c while it was in its loop
Signalled(c) == shutdown_rx[c] > 0

\* the disconnects counted for connection c, over all reasons
Total(c) ==
    disconnects[c]["normal"] + disconnects[c]["error"]
        + disconnects[c]["timeout"] + disconnects[c]["shutdown"]

Triggered == sup.sigint \/ sup.sigterm \/ sup.request

\* every supervisor task that a delivered trigger wakes has run
SupQuiet ==
    /\ sup.sigint => sup.ctrl_c_task = "done"
    /\ sup.request => sup.control_task = "done"
    /\ Triggered \/ sup.sent > 0 => sup.listener = "shutdown"

\* C12 as stated: after any of the three triggers (SIGINT, SIGTERM, the
\* in-process request), once the supervisor's tasks have reacted, the
\* listener's graceful-shutdown hook has fired and the shutdown message has
\* reached every connection in its loop.  Violated by SIGTERM: only
\* ctrl_c_or_signal listens for it, and nothing sends on invoke_shutdown.
C12_AsStated ==
    Triggered /\ SupQuiet =>
        /\ sup.listener = "shutdown"
        /\ \A c \in Conns : pc[c] = "loop" => Signalled(c)

Interval == settings.ping_interval_seconds

\* how long connection c has been without an inbound frame
Quiet(c) == now - last_message_time[c]

PingStates ==
    /\ (Interval \in 1..MaxQuiet /\ nframes = 0 /\ now >= 2 * Interval) =>
           (pings[1] # <<>> /\ pings[1][1] <= 2 * Interval)
    /\ (pc[1] = "loop") => (Quiet(1) <= MaxQuiet + Interval)
    /\ (nframes = 0 /\ now > MaxQuiet + Interval /\ Interval > 0) =>
           (pc[1] = "done" /\ disconnects[1]["timeout"] = 1)
    /\ (Interval > MaxQuiet /\ nframes = 0) => (pings[1] = <<>>)
    /\ (Interval = 0) => (pc[1] = "panic" /\ pings[1] = <<>> /\ Total(1) = 0)

\* what holds of the ping timer in every step
PingSteps ==
    /\ (disconnects'[1]["timeout"] # disconnects[1]["timeout"]) =>
           (Quiet(1) > MaxQuiet /\ pc[1] = "loop" /\ pc'[1] = "done")
    /\ (pings'[1] # pings[1]) =>
           (Quiet(1) <= MaxQuiet /\ pings'[1] = Append(pings[1], now))

InTable(q) ==
    \E id \in DOMAIN running_queries[queries[q].conn] :
        running_queries[queries[q].conn][id] = q

\* C14: a cancel signal that is in the running-queries table has not been
\* fired, one that has left it (by CLOSE, by the insert of a new signal
\* under its id, or by the end of the loop) has been fired exactly once,
\* and the table of a connection that has left its loop is empty.
C14_CancelFiredOnce ==
    /\ \A q \in DOMAIN queries :
           /\ queries[q].fired <= 1
           /\ InTable(q) => queries[q].fired = 0
           /\ ~InTable(q) => queries[q].fired = 1
    /\ \A c \in Conns : pc[c] = "done" => running_queries[c] = EmptyMap

\* the loop was ended by the idle check; one cancel signal had been fired
\* by a CLOSE and another was fired by the cleanup
C14_Witness ==
    /\ pc[1] = "done" /\ disconnects[1]["timeout"] = 1
    /\ \E q1, q2 \in DOMAIN queries :
           /\ queries[q1].closed /\ queries[q1].fired = 1
           /\ ~queries[q2].closed /\ queries[q2].fired = 1

\* the reason the claim gives for the exit that the step labelled l took
ExpectedReason(l) ==
    IF l.k = "shutdown" THEN "shutdown"
    ELSE IF l.k = "tick" THEN "timeout"
    ELSE IF l.f.t \in {"WsClose", "None", "AlreadyClosed", "ConnectionClosed",
                       "ResetWithoutClosingHandshake"} THEN "normal"
    ELSE "error"

\* C15: a step in which a connection leaves its loop increments exactly one
\* label of disconnects for that connection, by one: normal for a Close
\* frame, the end of the stream, AlreadyClosed, ConnectionClosed and an
\* unclean reset, error for an IO error and any other transport error,
\* timeout for the idle check, shutdown for the shutdown message; no other
\* step changes disconnects.
C15_OneReasonPerExit ==
    [][\A c \in Conns :
          IF pc[c] = "loop" /\ pc'[c] = "done"
          THEN /\ last'.c = c
               /\ disconnects'[c] =
                      [disconnects[c] EXCEPT ![ExpectedReason(last')] = @ + 1]
          ELSE disconnects'[c] = disconnects[c]]_vars

\* the connection left its loop on an IO error, counted as error
C15_Witness ==
    /\ pc[1] = "done" /\ last.k = "in" /\ last.c = 1 /\ last.f.t = "Io"
    /\ disconnects[1] = [r \in Reasons |-> IF r = "error" THEN 1 ELSE 0]

\* the step reads the oldest frame that has arrived at connection c
Reads(c) == inbox[c] # <<>> /\ inbox'[c] = Tail(inbox[c])

\* the frame over the size limit that is configured
OverLimit(x) == \E m \in settings.max_event_bytes : m > 0 /\ x.len > m

\* x is one of the non-fatal conditions for connection c: a binary frame,
\* the transport's message-too-long error, a text frame that does not
\* parse, an EVENT over the size limit, a REQ that conn.subscribe rejects
NonFatal(c, x) ==
    \/ x.kind \in {"Binary", "TooLong"}
    \/ x.kind = "Text" /\ x.body.t = "garbage"
    \/ x.kind = "Text" /\ x.body.t = "EVENT" /\ OverLimit(x)
    \/ /\ x.kind = "Text" /\ x.body.t = "REQ"
       /\ x.body.sub.id \notin DOMAIN subscriptions[c]
       /\ Cardinality(DOMAIN subscriptions[c]) >= MaxSubs

\* the step writes exactly one frame to connection c, a NOTICE
OneNotice(c) ==
    /\ Len(log'[c]) = Len(log[c]) + 1
    /\ SubSeq(log'[c], 1, Len(log[c])) = log[c]
    /\ log'[c][Len(log'[c])].f.t = "NOTICE"

\* C16: the step that handles a non-fatal inbound condition (a text frame
\* that does not parse, an EVENT over the size limit, a rejected subscribe,
\* a binary frame, the transport's message-too-long error) writes exactly
\* one NOTICE frame, leaves the subscription table and the running-queries
\* table as they were, puts nothing on the writer's channel, and leaves the
\* connection in its loop.
C16_NonFatalNotice ==
    [][(Reads(1) /\ NonFatal(1, Head(inbox[1]))) =>
          /\ OneNotice(1)
          /\ subscriptions' = subscriptions
          /\ running_queries' = running_queries
          /\ queries' = queries
          /\ event_tx' = event_tx /\ subm' = subm
          /\ pc'[1] = "loop"]_vars

\* a third REQ was rejected at the subscription limit and answered by a
\* NOTICE; the two subscriptions are still there
C16_Witness ==
    /\ last.k = "in" /\ last.f.t = "REQ"
    /\ last.f.sub.id \notin DOMAIN subscriptions[1]
    /\ Cardinality(DOMAIN subscriptions[1]) = MaxSubs
    /\ log[1] # <<>> /\ log[1][Len(log[1])].f.t = "NOTICE"
    /\ pc[1] = "loop"

\* the frame NOTICE "event exceeded max size"
TooBig == Wire("NOTICE", NoId, NoEvent, FALSE, "event exceeded max size")

\* the step writes the frame TooBig to connection c
SendsTooBig(c) ==
    \E k \in (Len(log[c]) + 1)..Len(log'[c]) : log'[c][k].f = TooBig

\* C17 as stated: the step that reads a text frame longer than a positive
\* max_event_bytes answers with the notice "event exceeded max size", puts
\* nothing on the writer's channel and leaves the connection in its loop.
\* Violated by a frame over the limit that does not parse, which is
\* answered "could not parse command", and by a REQ frame over the limit,
\* which is subscribed as usual.
C17_AsStated ==
    [][(Reads(1) /\ Head(inbox[1]).kind = "Text" /\ OverLimit(Head(inbox[1]))) =>
          /\ OneNotice(1) /\ SendsTooBig(1)
          /\ event_tx' = event_tx
          /\ pc'[1] = "loop"]_vars

\* C17: the step that reads a text frame that parses as an EVENT and is
\* longer than a positive max_event_bytes writes the one notice "event
\* exceeded max size", puts nothing on the writer's channel and leaves the
\* connection in its loop; the step that reads any other text frame (an
\* EVENT at or below the limit, any frame when the limit is 0 or unset, a
\* frame that is not an EVENT) does not write that notice.
C17_EventSizeLimit ==
    [][(Reads(1) /\ Head(inbox[1]).kind = "Text") =>
          IF Head(inbox[1]).body.t = "EVENT" /\ OverLimit(Head(inbox[1]))
          THEN /\ OneNotice(1) /\ SendsTooBig(1)
               /\ event_tx' = event_tx /\ subm' = subm
               /\ pc'[1] = "loop"
          ELSE ~SendsTooBig(1)]_vars

\* an EVENT over the configured limit was answered with the notice, and an
\* EVENT at the limit was put on the writer's channel
C17_Witness ==
    /\ settings.max_event_bytes = {MaxEventBytes}
    /\ \E k \in DOMAIN log[1] : log[1][k].f = TooBig
    /\ subm # <<>>
    /\ pc[1] = "loop"

\* the step reads a text frame that convert_to_msg passes on as the EVENT f
ReadsEvent(c, f) ==
    /\ Reads(c) /\ Head(inbox[c]).kind = "Text" /\ Head(inbox[c]).body = f
    /\ f.t = "EVENT" /\ ~OverLimit(Head(inbox[c]))

\* the step puts event e on the writer's channel
Enqueues(c, e) ==
    /\ Len(event_tx') = Len(event_tx) + 1
    /\ event_tx'[Len(event_tx')].event = e
    /\ event_tx'[Len(event_tx')].notice_tx = c

\* the step writes one frame to connection c, the result OK(false) for e
\* with the message msg
OneInvalid(c, e, msg) ==
    /\ Len(NewFrames(c)) = 1
    /\ NewFrames(c)[1].f = Wire("OK", NoId, e, FALSE, msg)

\* the message that explains the window of the future-timestamp check
WindowMsg ==
    "The event created_at field is out of the acceptable range (+"
        \o ToString(fut_sec) \o "sec) for this relay."

Submits(x) ==
    /\ x.kind = "Text" /\ x.body.t = "EVENT" /\ ~OverLimit(x)
    /\ x.body.valid /\ x.body.ts_ok

\* the text frame x is a REQ that connection c accepts
Subscribes(c, x) ==
    /\ x.kind = "Text" /\ x.body.t = "REQ"
    /\ x.body.sub.id \notin DOMAIN subscriptions[c]
    /\ Cardinality(DOMAIN subscriptions[c]) < MaxSubs

\* the whole handling of frame x is in the step: its event is the newest
\* entry of the writer's channel, or the channel has no new entry; its
\* subscription is registered and its query dispatched
HandledInStep(c, x) ==
    /\ IF Submits(x)
       THEN /\ event_tx' = Append(event_tx,
                                  SubmittedEvent(x.body.ev, c, Len(subm) + 1))
            /\ Len(subm') = Len(subm) + 1
            /\ SubSeq(subm', 1, Len(subm)) = subm
            /\ subm'[Len(subm')].ev = x.body.ev /\ subm'[Len(subm')].conn = c
       ELSE event_tx' = event_tx /\ subm' = subm
    /\ Subscribes(c, x) =>
          /\ x.body.sub.id \in DOMAIN subscriptions'[c]
          /\ Len(queries') = Len(queries) + 1
          /\ queries'[Len(queries')].sub = x.body.sub.id
          /\ running_queries'[c][x.body.sub.id] = Len(queries')

\* C19: the stream of a connection changes only by a frame arriving at
\* its end or by the loop taking its oldest frame; the step that takes a
\* frame handles it to the end (an accepted EVENT is the newest entry of
\* the submission channel, an accepted REQ is registered and its query
\* dispatched) before another frame is taken, and the submission channel
\* otherwise only loses its oldest entry to the writer, so the events of a
\* connection reach the writer in the order their frames arrived.
C19_ArrivalOrder ==
    [][/\ (inbox'[1] # inbox[1]) =>
             \/ /\ \E x \in WsItems : inbox'[1] = Append(inbox[1], x)
                /\ event_tx' = event_tx /\ subm' = subm /\ nframes' = nframes
             \/ /\ Reads(1)
                /\ nframes' = nframes + 1
                /\ HandledInStep(1, Head(inbox[1]))
       /\ (inbox'[1] = inbox[1] /\ event_tx' # event_tx) =>
             (event_tx # <<>> /\ event_tx' = Tail(event_tx))]_vars

\* e1 and e2 were submitted in the order their frames arrived while a third
\* frame was waiting in the stream
C19_Witness ==
    /\ Len(subm) = 2 /\ subm[1].ev = "e1" /\ subm[2].ev = "e2"
    /\ inbox[1] # <<>> /\ nframes = 2

\* what holds of the bus in every state: the writer can take its next
\* submission whatever the receivers hold; a receiver holds at most the
\* buffer; every published event was read by, was lost to, or waits for a
\* connection in its loop; a connection with events waiting can take the
\* bus branch
BusStates ==
    /\ event_tx # <<>> => ENABLED (\E res \in WriteResults : WriterStep(res))
    /\ \A c \in Conns :
          /\ Len(bcast_rx[c]) <= BroadcastBuffer
          /\ pc[c] = "loop" =>
                busstat[c].read + busstat[c].lost + Len(bcast_rx[c]) = Len(published)
          /\ (pc[c] = "loop" /\ bcast_rx[c] # <<>>) =>
                ENABLED (BroadcastBranch(c) \/ BroadcastLagged(c))

\* what holds of the bus in every step: an event is lost to a connection
\* only by a publish that finds its buffer full, and the connection and its
\* subscriptions stay; the step that takes the lag error changes nothing
\* else of the connection; only the client's Close frame ends the loop
BusSteps ==
    \A c \in Conns :
       /\ (busstat'[c].lost # busstat[c].lost) =>
             /\ busstat'[c].lost = busstat[c].lost + 1
             /\ Len(bcast_rx[c]) = BroadcastBuffer /\ Len(published') = Len(published) + 1
             /\ bcast_rx'[c] = Append(Tail(bcast_rx[c]), published'[Len(published')])
             /\ pc[c] = "loop" /\ pc'[c] = "loop"
             /\ subscriptions'[c] = subscriptions[c]
       /\ (lagged[c] /\ ~lagged'[c] /\ pc'[c] = "loop") =>
             /\ subscriptions'[c] = subscriptions[c]
             /\ bcast_rx'[c] = bcast_rx[c]
             /\ log' = log
       /\ (pc[c] = "loop" /\ pc'[c] = "done") =>
             (last'.k = "in" /\ last'.c = c /\ last'.f = WsCloseFrame)

\* C20: a connection that falls behind on the bus loses the events that
\* overflow its buffer and nothing else; it stays in its loop with its
\* subscriptions, takes the lag error without any other effect and goes on
\* reading the events that follow; the writer's publish is never held back
\* by what a connection has not read.
C20_LagTolerated == []BusStates /\ [][BusSteps]_vars

\* connection 1 lost the first published event to overflow, took the lag
\* error, and was then sent the second event under its subscription
C20_Witness ==
    /\ pc[1] = "loop" /\ ~lagged[1] /\ subscriptions[1] # EmptyMap
    /\ busstat[1].lost = 1 /\ busstat[1].read = 1 /\ Len(published) = 2
    /\ \E k \in DOMAIN log[1] :
           log[1][k].f.t = "EVENT" /\ log[1][k].f.ev = published[2]

\* the places among the frames of connection c of the realtime EVENT frames
\* sent for subscription id
RealtimeAt(c, id) ==
    { k \in DOMAIN log[c] :
        log[c][k].f.t = "EVENT" /\ log[c][k].q = 0 /\ log[c][k].key = id }

\* the place of event e in the order the writer published
PubIndex(e) == CHOOSE k \in DOMAIN published : published[k] = e

Cells(c) == IF sub_lim_opt[c] = {} THEN -1 ELSE CHOOSE k \in sub_lim_opt[c] : TRUE

\* a connection has a limiter exactly when subscriptions_per_min is
\* positive; without one, a REQ is handled whenever a frame can be read
LimStates ==
    \A c \in Conns :
        /\ (sub_lim_opt[c] # {}) <=>
              (\E sub_per_min \in settings.subscriptions_per_min : sub_per_min > 0)
        /\ (sub_lim_opt[c] = {} /\ pc[c] = "loop" /\ nframes < MaxFrames)
              => ENABLED InboundReq(c)

\* a REQ that is no duplicate takes one cell of its own connection's
\* bucket, which held one, in the step in which conn.subscribe is called;
\* no other step takes a cell of that bucket
LimSteps ==
    \A c \in Conns :
        /\ (Handles(c, "REQ") /\ ~last'.had /\ sub_lim_opt[c] # {})
              => (Cells(c) > 0 /\ Cells(c)' = Cells(c) - 1)
        /\ (Cells(c)' < Cells(c))
              => (Handles(c, "REQ") /\ ~last'.had)
        /\ (subscriptions'[c] # subscriptions[c] /\ Handles(c, "REQ") /\ sub_lim_opt[c] # {})
              => (Cells(c)' = Cells(c) - 1)

\* C22: with subscriptions_per_min absent or zero a connection has no rate
\* limiter and a REQ never waits; with a positive value every REQ that is
\* no duplicate takes a cell from the bucket of its own connection before
\* conn.subscribe is called, and no REQ takes a cell of another
\* connection's bucket.
C22_RateLimit == []LimStates /\ [][LimSteps]_vars

\* connection 2 has taken the only cell of its bucket for a subscription
\* while the bucket of connection 1 is full
C22_Witness ==
    /\ Cells(2) = 0 /\ Cells(1) = SubsPerMin
    /\ DOMAIN subscriptions[2] # {} /\ last.k = "in" /\ last.c = 2

\* C23 as stated: "/" with an Upgrade header gives the handshake, and
\* every GET of /metrics gives the metrics
C23_AsStated ==
    /\ (http.request.path = "/" /\ http.request.upgrade)
          => http.response.body = "handshake"
    /\ (http.request.path = "/metrics" /\ http.request.method = "GET")
          => http.response.body = "metric_families"

\* C23: the response is a function of the path, the presence of an
\* Upgrade header, the Accept header and, for "/" with Upgrade, whether
\* the request is a valid handshake: "/" with Upgrade gives the handshake
\* (101) or 400; "/" without Upgrade gives the relay information document
\* when Accept is visible ASCII containing application/nostr+json and 200
\* text/plain otherwise; "/metrics" without Upgrade gives the metrics,
\* whatever the method; everything else, "/metrics" with Upgrade
\* included, gives 404 "Nothing here.".
C23_Routes ==
    LET r == http.request
        a == http.response
        info == \E h \in r.accept :
                   h.visible /\ \E i \in DOMAIN h.text : h.text[i] = "application/nostr+json"
    IN http # NoExchange =>
        /\ (r.path = "/" /\ r.upgrade /\ r.handshake) => (a.status = 101 /\ a.body = "handshake")
        /\ (r.path = "/" /\ r.upgrade /\ ~r.handshake)
              => (a.status = 400 /\ a.body = "Failed to create websocket: ")
        /\ (r.path = "/" /\ ~r.upgrade /\ info)
              => a = Response(200, "application/nostr+json", "*", "RelayInfo")
        /\ (r.path = "/" /\ ~r.upgrade /\ ~info)
              => a = Response(200, "text/plain", "", "Please use a Nostr client to connect.")
        /\ (r.path = "/metrics" /\ ~r.upgrade)
              => a = Response(200, "text/plain", "", "metric_families")
        /\ (r.path = "/metrics" /\ r.upgrade) => a = Response(404, "", "", "Nothing here.")
        /\ (r.path \notin {"/", "/metrics"}) => a = Response(404, "", "", "Nothing here.")
        /\ (a.status = 101) = (r.path = "/" /\ r.upgrade /\ r.handshake)

\* a GET of /metrics that carries an Upgrade header has been answered
C23_Witness ==
    /\ http.request.path = "/metrics" /\ http.request.method = "GET"
    /\ http.request.upgrade /\ http.response.status = 404

\* C24 as stated: every entry of a running-queries table belongs to a
\* historical query that was started
C24_AsStated ==
    \A c \in Conns : \A id \in DOMAIN running_queries[c] :
        queries[running_queries[c][id]].state # "none"

\* the step subscribes id on connection c
SubscribesId(c, id) ==
    /\ Handles(c, "REQ") /\ last'.f.id = id
    /\ id \notin DOMAIN subscriptions[c] /\ id \in DOMAIN subscriptions'[c]

\* how the running-queries tables change in one step
TableSteps ==
    \A c \in Conns : \A id \in SubIds :
        /\ (id \notin DOMAIN running_queries[c] /\ id \in DOMAIN running_queries'[c])
              => SubscribesId(c, id)
        /\ SubscribesId(c, id) => id \in DOMAIN running_queries'[c]
        /\ (id \in DOMAIN running_queries[c] /\ id \notin DOMAIN running_queries'[c])
              => \/ Handles(c, "CLOSE") /\ last'.f.id = id
                 \/ pc[c] = "loop" /\ pc'[c] = "done"
        /\ (id \in DOMAIN running_queries[c] /\ id \in DOMAIN running_queries'[c])
              => running_queries'[c][id] = running_queries[c][id]

\* C24: a running-queries table gets an entry under sub id s exactly when
\* a REQ for s subscribes, whether or not a historical query is started
\* for it; the entry is removed by a CLOSE of s or at the end of the
\* connection, and is never replaced while it is there.
C24_EntryPerSubscribe == [][TableSteps]_vars

\* the table of connection 1 holds an entry for a subscription that asked
\* for no stored events
C24_Witness ==
    \E id \in DOMAIN running_queries[1] :
        /\ queries[running_queries[1][id]].state = "none"
        /\ id \in DOMAIN subscriptions[1] /\ ~needs_historical_events(subscriptions[1][id])

\* a REQ step hands a query to the workers exactly when it subscribes a
\* subscription that needs stored events, and a bus step sends the event
\* for every subscription of the table that matches, whether or not the
\* EOSE of its query has been sent
HistSteps ==
    \A c \in Conns :
        /\ \A id \in SubIds :
              SubscribesId(c, id) =>
                  /\ Len(queries') = Len(queries) + 1
                  /\ id \in DOMAIN subscriptions'[c]
                  /\ (queries'[Len(queries')].state = "running")
                        <=> needs_historical_events(last'.f.sub)
                  /\ (queries'[Len(queries')].state = "none")
                        <=> ~needs_historical_events(last'.f.sub)
        /\ (Handles(c, "REQ") /\ DOMAIN subscriptions'[c] = DOMAIN subscriptions[c])
              => queries' = queries
        /\ ReadsBus(c) =>
              \A id \in Matching(c) :
                  \E k \in NewFor(c, id) :
                      /\ NewFrames(c)[k].f.t = "EVENT" /\ NewFrames(c)[k].q = 0
                      /\ NewFrames(c)[k].f.ev = Head(bcast_rx[c])

\* C25: a REQ that subscribes hands a historical query to the workers if
\* and only if needs_historical_events() holds of its subscription; either
\* way the subscription is in the table when the step ends, and every bus
\* event read while it is there and matching is sent to it, also before
\* the EOSE of its query.
C25_HistoricalIffNeeded == [][HistSteps]_vars

\* connection 1 has sent a realtime EVENT frame for a subscription whose
\* historical query is running and has sent no EOSE yet
C25_Witness ==
    \E id \in DOMAIN running_queries[1] :
        LET q == running_queries[1][id]
        IN /\ queries[q].state = "running" /\ ResultsAt(q, "EOSE") = {}
           /\ \E i \in DOMAIN Sent(1) : i > queries[q].openedAt /\ Realtime(1, i, id)

\* the tables and the loop of connection c
Own(c) == <<subscriptions[c], running_queries[c], pc[c]>>

\* a step that changes the tables of a connection or ends its loop is a
\* step of that connection: it handles one of its frames or its tick
IsoSteps ==
    \A c \in Conns :
        Own(c)' # Own(c) =>
            /\ last'.c = c /\ last'.k \in {"in", "tick"}
            /\ \A d \in Conns \ {c} : Own(d)' = Own(d)

\* C26: no frame, transport error, timeout or end of one connection
\* changes the subscription table or the running-queries table of another
\* connection or ends its loop; a step ends the loop of at most the
\* connection it belongs to.
C26_Isolation == [][IsoSteps]_vars

\* connection 1 has ended on a transport error while connection 2 is in
\* its loop with a subscription and its cancel signal, under a sub id that
\* connection 1 had subscribed too
C26_Witness ==
    /\ pc[1] = "done" /\ disconnects[1]["error"] = 1
    /\ pc[2] = "loop" /\ DOMAIN subscriptions[2] # {} /\ DOMAIN running_queries[2] # {}
    /\ \E q \in DOMAIN queries :
          queries[q].conn = 1 /\ queries[q].sub \in DOMAIN subscriptions[2]

\* the longest time connection c has been without the arrival of a frame
Longest(c) ==
    IF now - arrivals[c].last > arrivals[c].gap
    THEN now - arrivals[c].last ELSE arrivals[c].gap

\* C27 as stated: a connection is counted as timed out only when it has
\* been without the arrival of a frame for 20 minutes or more
C27_AsStated ==
    [][\A c \in Conns :
          disconnects'[c]["timeout"] # disconnects[c]["timeout"]
              => Longest(c) >= MaxQuiet]_vars

\* a connection that has been counted as timed out had read no frame for
\* more than 20 minutes
IdleStates ==
    \A c \in Conns :
        /\ disconnects[c]["timeout"] > 0 => Quiet(c) > MaxQuiet
        /\ last_message_time[c] <= now

\* every step in which the loop reads an inbound frame sets the time of
\* last activity to the present, no other step changes it, and a tick that
\* finds the connection quiet for at most 20 minutes sends a Ping and
\* leaves the connection in its loop
IdleSteps ==
    \A c \in Conns :
        /\ (last'.k = "in" /\ last'.c = c) => last_message_time'[c] = now
        /\ (last_message_time'[c] # last_message_time[c])
              => (last'.k = "in" /\ last'.c = c)
        /\ (last'.k = "tick" /\ last'.c = c /\ Quiet(c) <= MaxQuiet)
              => /\ pings'[c] = Append(pings[c], now)
                 /\ pc'[c] = "loop"
                 /\ disconnects'[c] = disconnects[c]
        /\ (disconnects'[c]["timeout"] # disconnects[c]["timeout"])
              => (last'.k = "tick" /\ last'.c = c /\ Quiet(c) > MaxQuiet)

\* C27: every inbound frame the loop reads, a Pong as well as an EVENT or
\* a CLOSE, sets the time of last client activity to the present and
\* nothing else changes it; a tick that comes within 20 minutes of the
\* last read sends a Ping and does not end the connection, and reason
\* timeout is counted only at a tick of a connection that has read no
\* frame for more than 20 minutes.
C27_ActivityResets == []IdleStates /\ [][IdleSteps]_vars

\* connection 1 has been sent its second Ping, 30 minutes after it
\* started: the tick found that a frame had been read 15 minutes earlier
C27_Witness ==
    /\ pc[1] = "loop" /\ now = 1800 /\ disconnects[1]["timeout"] = 0
    /\ Len(pings[1]) = 2 /\ pings[1][2] = now
    /\ last_message_time[1] = 900 /\ last.k = "tick"

\* connection c is suspended in event_tx.send(submit_event).await
Suspended(c) == pc[c] = "sending"

\* some branch of the select of connection c can be taken
SelectReady(c) ==
    ENABLED (\/ ShutdownBranch(c) \/ PingBranch(c) \/ NoticeBranch(c)
             \/ QueryResultBranch(c) \/ BroadcastBranch(c) \/ BroadcastLagged(c)
             \/ ReadNext(c) \/ ReadBlocks(c))

\* a suspended connection holds the EVENT frame it is handling, none of
\* the branches of its select can be taken, and its send can return
\* exactly when the submission channel has room
BackStates ==
    \A c \in Conns :
        Suspended(c) =>
            /\ inbox[c] # <<>> /\ Sendable(Head(inbox[c]))
            /\ ~SelectReady(c)
            /\ (ENABLED SendResumes(c)) <=> (Len(event_tx) < PersistBuffer)

\* what the connection has taken from its sources and written so far
Handled(c) ==
    <<log[c], subscriptions[c], running_queries[c], busstat[c].read, pings[c],
      ping_at[c], disconnects[c], last_message_time[c], nframes>>

\* the step in which an EVENT to be sent is read while the channel is
\* full suspends the connection and enqueues nothing; while the connection
\* is suspended nothing is taken from any of its sources and nothing is
\* written; the step that ends the suspension finds room and enqueues the
\* event of the frame, once
BackSteps ==
    \A c \in Conns :
        /\ (/\ pc[c] = "loop" /\ last'.k = "in" /\ last'.c = c
            /\ inbox[c] # <<>> /\ Sendable(Head(inbox[c]))
            /\ Len(event_tx) >= PersistBuffer)
              => /\ Suspended(c)'
                 /\ event_tx' = event_tx /\ subm' = subm
                 /\ inbox'[c] = inbox[c]
        /\ (Suspended(c) /\ Suspended(c)')
              => /\ Handled(c)' = Handled(c)
                 /\ Len(notice_rx'[c]) >= Len(notice_rx[c])
                 /\ Len(query_rx'[c]) >= Len(query_rx[c])
                 /\ shutdown_rx'[c] >= shutdown_rx[c]
                 /\ Len(inbox'[c]) >= Len(inbox[c]) /\ Head(inbox'[c]) = Head(inbox[c])
                 /\ \A i \in DOMAIN subm' : i > Len(subm) => subm'[i].conn # c
        /\ (Suspended(c) /\ ~Suspended(c)')
              => /\ pc'[c] = "loop"
                 /\ Len(event_tx) < PersistBuffer
                 /\ event_tx' = Append(event_tx,
                        SubmittedEvent(Head(inbox[c]).body.ev, c, Len(subm) + 1))
                 /\ Len(subm') = Len(subm) + 1
                 /\ subm'[Len(subm')].conn = c
                 /\ subm'[Len(subm')].ev = Head(inbox[c]).body.ev
                 /\ inbox'[c] = Tail(inbox[c])
                 /\ log'[c] = log[c]

AgreeStates ==
    \A c \in Conns : DOMAIN running_queries[c] = DOMAIN subscriptions[c]

\* a REQ that subscribes adds its id to both tables, a REQ that does not
\* leaves both alone, and a CLOSE takes its id out of both
AgreeSteps ==
    \A c \in Conns :
        /\ \A id \in SubIds :
              SubscribesId(c, id) => id \in DOMAIN running_queries'[c]
        /\ (Handles(c, "REQ") /\ DOMAIN subscriptions'[c] = DOMAIN subscriptions[c])
              => running_queries'[c] = running_queries[c]
        /\ (Handles(c, "CLOSE") /\ last'.f.valid)
              => /\ last'.f.id \notin DOMAIN subscriptions'[c]
                 /\ last'.f.id \notin DOMAIN running_queries'[c]

\* C29: whenever a connection is between two iterations of its loop, its
\* running-queries table and its subscription table hold the same sub
\* ids: a REQ that subscribes inserts a cancel signal, a REQ that fails
\* to subscribe or is a duplicate inserts none, and a CLOSE removes the
\* id from both.
C29_TablesAgree == []AgreeStates /\ [][AgreeSteps]_vars

\* connection 1 holds two subscriptions and two cancel signals, and the
\* REQ it has just handled failed to subscribe a third
C29_Witness ==
    /\ pc[1] = "loop" /\ Cardinality(DOMAIN running_queries[1]) = MaxSubs
    /\ last.k = "in" /\ last.c = 1 /\ last.f.t = "REQ" /\ ~last.had
    /\ last.f.id \notin DOMAIN subscriptions[1]

\* C30 as stated: once a CLOSE of s has been handled, a realtime EVENT
\* frame tagged s is sent only after a later REQ s has been accepted.
C30_AsStated ==
    \A q \in DOMAIN queries :
        queries[q].closed =>
            \A i \in TaggedAt(queries[q].conn, queries[q].sub, "EVENT", queries[q].closedAt) :
                (Sent(queries[q].conn)[i].q = 0)
                    => Registered(queries[q].conn, i, queries[q].sub)

\* every realtime EVENT frame of a subscription was sent while a REQ of
\* its id was accepted and not yet closed
CloseStates ==
    \A c \in Conns : \A id \in SubIds :
        \A i \in RealtimeAt(c, id) : Registered(c, i, id)

\* the step is the handling of a parsed CLOSE of id by connection c
ClosesId(c, id) ==
    /\ last'.k = "in" /\ last'.c = c
    /\ last'.f.t = "CLOSE" /\ last'.f.valid /\ last'.f.id = id

\* (a) a CLOSE of s leaves s out of the subscriptions, sends nothing and
\* leaves the unread bus events where they are; (b) s comes back only by a
\* REQ s that is accepted; (c) reading a bus event sends no frame for an
\* id that is not subscribed at that moment
CloseSteps ==
    \A c \in Conns : \A id \in SubIds :
        /\ ClosesId(c, id) =>
              (/\ id \notin DOMAIN subscriptions'[c]
               /\ log'[c] = log[c]
               /\ bcast_rx'[c] = bcast_rx[c])
        /\ (id \notin DOMAIN subscriptions[c] /\ id \in DOMAIN subscriptions'[c]) =>
              SubscribesId(c, id)
        /\ (ReadsBus(c) /\ id \notin DOMAIN subscriptions[c]) =>
              (NewFor(c, id) = {})

\* C30: after a CLOSE of subscription s has been handled, no realtime
\* EVENT frame is sent for s for any bus event the connection reads
\* afterwards, also one published before the CLOSE, until a later REQ s is
\* accepted. A frame that carries the tag s can still be sent for another
\* subscription whose id without its double quotes is s.
C30_ClosedSilent == []CloseStates /\ [][CloseSteps]_vars

\* connection 1 subscribed to a, which matches e1, closed a while e1,
\* published before its first frame, was unread, and has now read e1 from
\* the bus: no realtime frame was sent for a
C30_Witness ==
    /\ last.k = "bus" /\ last.c = 1
    /\ published = <<"e1">> /\ busstat[1].read = 1 /\ busstat[1].lost = 0
    /\ RealtimeAt(1, IdA) = {}
    /\ IdA \notin DOMAIN subscriptions[1]
    /\ \E q \in DOMAIN queries :
           queries[q].conn = 1 /\ queries[q].sub = IdA /\ queries[q].closed

====
